---- MODULE Spec2Model ----
(***************************************************************************)
(* State-machine model of src/Main.py: the trade-show quotation front-end  *)
(* (Flask handlers) and its three remote collaborators, the ERP (Odoo,     *)
(* XML-RPC), the CRM (Clientify, REST) and the VAT validation service      *)
(* (VIES, SOAP).                                                           *)
(*                                                                         *)
(* A request is one atomic action, except in SpecRace, where requests      *)
(* served by concurrent threads interleave at their remote calls.  The     *)
(* answers of the collaborators are                                        *)
(* inputs of the request: every remote call either answers, answers with   *)
(* a failure status, or raises in the transport.  Each handler is written  *)
(* as the set of the outcomes it can produce, following its code           *)
(* statement by statement; an exception no handler code catches ends the   *)
(* request with outcome "unhandled".                                       *)
(*                                                                         *)
(* Strings the code inspects character by character (tax IDs, product      *)
(* codes, e-mail addresses) are sequences of one-character strings.        *)
(***************************************************************************)
EXTENDS Integers, Sequences, FiniteSets, TLC

VARIABLES
    clientify_enabled,   \* CLIENTIFY_ENABLED, fixed at start-up
    session_partner_id,  \* session['partner_id'] of the one browser session
    partners,            \* ERP res.partner records, id = index
    orders,              \* ERP sale.order records, id = index
    order_lines,         \* ERP sale.order.line records, id = index
    contacts,            \* CRM contacts, id = index
    req,                 \* the request just served: handler, inputs, calls, outcome
    threads              \* the requests being served by concurrent server threads

vars == <<clientify_enabled, session_partner_id, partners, orders, order_lines,
          contacts, req, threads>>

-----------------------------------------------------------------------------
(* Bounds of the model *)

MaxTags == 3        \* length of a CRM contact's initial tag list
MaxContacts == 2    \* CRM contacts
MaxPartners == 2    \* ERP customers
MaxOrders == 1      \* ERP orders
MaxLines == 1       \* ERP order lines
MaxVatLen == 4      \* length of a submitted tax ID
MaxTable == 2       \* entries of the price override table
MaxCodeLen == 2     \* length of a submitted product code
MaxMails == 1       \* notes posted on, and emails sent for, one order
MaxThreads == 2     \* requests served concurrently

-----------------------------------------------------------------------------
(* Python values *)

None == "None"      \* None where the other values are strings
NoId == 0           \* None / False where the other values are record ids

\* Python truthiness of a str-or-None value
Truthy(s) == s # None /\ s # ""

\* x in list
In(x, list) == \E i \in DOMAIN list : list[i] = x

-----------------------------------------------------------------------------
(* Characters and strings *)

UpperLetters == {"A", "B", "E", "S", "P", "T", "X"}
LowerLetters == {"a", "b", "e", "s", "p", "t", "x"}
Digits == {"0", "1", "2", "3"}

LowerChar(c) ==
    CASE c = "A" -> "a" [] c = "B" -> "b" [] c = "E" -> "e" [] c = "S" -> "s"
      [] c = "P" -> "p" [] c = "T" -> "t" [] c = "X" -> "x" [] OTHER -> c

UpperChar(c) ==
    CASE c = "a" -> "A" [] c = "b" -> "B" [] c = "e" -> "E" [] c = "s" -> "S"
      [] c = "p" -> "P" [] c = "t" -> "T" [] c = "x" -> "X" [] OTHER -> c

\* str.lower(), str.upper()
Lower(s) == [i \in DOMAIN s |-> LowerChar(s[i])]
Upper(s) == [i \in DOMAIN s |-> UpperChar(s[i])]

\* str.isalpha(): non-empty and every character a letter
IsAlpha(s) == s # <<>> /\ \A i \in DOMAIN s : s[i] \in UpperLetters \cup LowerLetters

\* str.isdigit()
IsDigit(s) == s # <<>> /\ \A i \in DOMAIN s : s[i] \in Digits

\* s[:n]
Prefix(s, n) == SubSeq(s, 1, IF n < Len(s) THEN n ELSE Len(s))

\* str.strip(): surrounding blanks removed
RECURSIVE LStrip(_)
LStrip(s) == IF s # <<>> /\ Head(s) = " " THEN LStrip(Tail(s)) ELSE s

RECURSIVE RStrip(_)
RStrip(s) ==
    IF s # <<>> /\ s[Len(s)] = " " THEN RStrip(SubSeq(s, 1, Len(s) - 1)) ELSE s

Strip(s) == RStrip(LStrip(s))

\* sequences over S of length at most n
SeqsUpTo(S, n) == UNION {[1..k -> S] : k \in 0..n}

\* q occurs in s as a contiguous substring
IsSubstring(q, s) ==
    \E i \in 0..(Len(s) - Len(q)) : SubSeq(s, i + 1, i + Len(q)) = q

\* the smallest element of a non-empty set of integers
Min(S) == CHOOSE x \in S : \A y \in S : x <= y

-----------------------------------------------------------------------------
(* CRM Contact Reconciler: create_or_update_client_in_clientify *)

TAG_NAME == "Expodental-2026"
EVENT_MARKER == "Expodental 2026"

RecognizedTags == <<"mayorista", "laboratorio", "clinica_dental", "estudiante", "otros">>

IsRecognized(t) == In(t, RecognizedTags)

\* for tag in existing_tags: if tag in [...]: tag_reconhecida = tag; break
FirstRecognized(existing_tags) ==
    IF \E i \in DOMAIN existing_tags : IsRecognized(existing_tags[i])
    THEN existing_tags[Min({i \in DOMAIN existing_tags : IsRecognized(existing_tags[i])})]
    ELSE None

WithMarkerAppended(existing_tags) == Append(existing_tags, EVENT_MARKER)

\* novas_tags after the event marker was added if absent
WithMarker(existing_tags) ==
    IF In(EVENT_MARKER, existing_tags) THEN existing_tags
    ELSE Append(existing_tags, EVENT_MARKER)

\* if tipo and tipo not in novas_tags and tipo in [...]
AddsTipo(novas_tags, tipo) ==
    Truthy(tipo) /\ ~In(tipo, novas_tags) /\ IsRecognized(tipo)

MergeTagsAppendsAlways(existing_tags, tipo) ==
    IF Truthy(tipo) /\ IsRecognized(tipo)
    THEN Append(Append(existing_tags, EVENT_MARKER), tipo)
    ELSE Append(existing_tags, EVENT_MARKER)

\* the tag list sent in the PATCH of a matched contact
MergeTags(existing_tags, tipo) ==
    IF AddsTipo(WithMarker(existing_tags), tipo)
    THEN Append(WithMarker(existing_tags), tipo)
    ELSE WithMarker(existing_tags)

ResolveTagFirstOnly(existing_tags, tipo) == FirstRecognized(existing_tags)

\* tag_reconhecida returned for a matched contact
ResolveTag(existing_tags, tipo) ==
    IF AddsTipo(WithMarker(existing_tags), tipo) THEN tipo
    ELSE FirstRecognized(existing_tags)

NewContactTagsAppended(tipo) ==
    IF Truthy(tipo) /\ IsRecognized(tipo) THEN <<TAG_NAME, EVENT_MARKER, tipo>>
    ELSE <<TAG_NAME, EVENT_MARKER>>

\* the tag list sent in the POST of a new contact
NewContactTags(tipo) ==
    IF Truthy(tipo) /\ IsRecognized(tipo) THEN <<tipo, TAG_NAME, EVENT_MARKER>>
    ELSE <<TAG_NAME, EVENT_MARKER>>

\* tag_reconhecida on the create path
NewContactTag(tipo) == IF Truthy(tipo) /\ IsRecognized(tipo) THEN tipo ELSE None

\* the CRM's answer to GET contacts/?search=<email>: the ids, in order, of the
\* contacts whose e-mail contains the search text
SearchResults(cs, email) ==
    LET Hit(i) == IsSubstring(Lower(email), Lower(cs[i].email))
    IN SelectSeq([i \in 1..Len(cs) |-> i], Hit)

ExactMatchNever(cs, email) == NoId

\* next(c for c in results if c.email.lower() == email.lower()), NoId if none
ExactMatch(cs, email) ==
    LET res == SearchResults(cs, email)
        eq == {k \in DOMAIN res : Lower(cs[res[k]].email) = Lower(email)}
    IN IF eq = {} THEN NoId ELSE res[Min(eq)]

NewContact(email, tags) == [email |-> email, tags |-> tags, valor |-> NoId]

\* one way create_or_update_client_in_clientify can end: the returned pair, the
\* CRM calls issued and what each answered, the CRM's contacts afterwards, and
\* whether an exception left the function
CrmOut(tag, id, matched, calls, answers, cs, patch_tags, post_tags) ==
    [tag |-> tag, id |-> id, matched |-> matched, calls |-> calls,
     answers |-> answers, contacts |-> cs, raised |-> In("raise", answers),
     patch_tags |-> patch_tags, post_tags |-> post_tags]

\* the matched branch: merge the tags, PATCH, return (tag_reconhecida, client_id)
ReconcileMatched(cs, cd, id) ==
    LET existing_tags == cs[id].tags
        novas_tags == MergeTags(existing_tags, cd.customer_tag)
        tag == ResolveTag(existing_tags, cd.customer_tag)
        calls == <<"crm.GET", "crm.PATCH.contact">>
    IN { CrmOut(tag, id, id, calls, <<"ok", "ok">>,
                [cs EXCEPT ![id].tags = novas_tags], novas_tags, <<>>),
         CrmOut(tag, id, id, calls, <<"ok", "status">>, cs, novas_tags, <<>>),
         CrmOut(None, NoId, id, calls, <<"ok", "raise">>, cs, novas_tags, <<>>) }

\* the create branch, reached after the GET answered `got`: POST a new contact
ReconcileCreate(cs, cd, got) ==
    LET tags == NewContactTags(cd.customer_tag)
        tag == NewContactTag(cd.customer_tag)
        calls == <<"crm.GET", "crm.POST">>
    IN { CrmOut(None, NoId, NoId, calls, <<got, "status">>, cs, <<>>, tags),
         CrmOut(None, NoId, NoId, calls, <<got, "raise">>, cs, <<>>, tags) }
       \cup
       ( IF Len(cs) < MaxContacts
         THEN { CrmOut(tag, Len(cs) + 1, NoId, calls, <<got, "ok">>,
                       Append(cs, NewContact(cd.email, tags)), <<>>, tags) }
         ELSE {} )

ReconcileDisabledNever(enabled) == FALSE

\* if not CLIENTIFY_ENABLED: return None, None
ReconcileDisabled(enabled) == ~enabled

\* create_or_update_client_in_clientify(client_data): every way the call can
\* end, over the answers of the CRM to its GET, PATCH and POST
Reconcile(enabled, cs, cd) ==
    IF ReconcileDisabled(enabled)
    THEN { CrmOut(None, NoId, NoId, <<>>, <<>>, cs, <<>>, <<>>) }
    ELSE
      \* requests.get raises
      { CrmOut(None, NoId, NoId, <<"crm.GET">>, <<"raise">>, cs, <<>>, <<>>) }
      \cup
      \* status 200: the exact match among the results decides
      ( IF ExactMatch(cs, cd.email) # NoId
        THEN ReconcileMatched(cs, cd, ExactMatch(cs, cd.email))
        ELSE ReconcileCreate(cs, cd, "ok") )
      \cup
      \* a status other than 200: falls through to the create branch
      ReconcileCreate(cs, cd, "status")

-----------------------------------------------------------------------------
(* The request just served *)

NoReq == [handler |-> "none", calls |-> <<>>, outcome |-> "none", flash |-> {},
          info |-> [none |-> TRUE]]

Served(handler, calls, outcome, flash, info) ==
    [handler |-> handler, calls |-> calls, outcome |-> outcome, flash |-> flash,
     info |-> info]

-----------------------------------------------------------------------------
(* Configuration (defaults of the environment variables) *)

SALES_TEAM_ID == 22
PRICELIST_ORDER_ID == 48
PRICELIST_MAYORISTA_ID == 32
PRICELIST_DEFAULT_ID == 33
TAG_MAYORISTA_ID == 2
TAG_CLINICA_DENTAL_ID == 3
TAG_LABORATORIO_ID == 4
TAG_ESTUDIANTE_ID == 5
TAG_OTROS_ID == 15
MANDATORY_TAG_IDS == <<319, 403>>
WAREHOUSE_ID == 19
PAYMENT_TERM_CASH_ID == 33
PAYMENT_TERM_CARD_ID == 34
EMAIL_TEMPLATE_ID == 162

\* fiscal_position_id: the default, and "intracomunitário sem IVA"
FISCAL_DOMESTIC == 1
FISCAL_INTRACOM == 4

-----------------------------------------------------------------------------
(* create_presupuesto *)

ES == <<"E", "S">>

\* if not vat or len(vat) < 3  (an absent vat parameter is the empty string here)
VatRejected(vat) == vat = <<>> \/ Len(vat) < 3

\* if country_code == 'ES' and len(vat) > 2 and vat[2].isdigit(): pass
IsSpanishNif(vat) ==
    Upper(Prefix(vat, 2)) = ES /\ Len(vat) > 2 /\ IsDigit(<<vat[3]>>)

LooksUpAlways(vat) == TRUE

\* elif country_code != 'ES'
LooksUp(vat) == Upper(Prefix(vat, 2)) # ES

\* the fiscal position after checkVat answered
FiscalAfterAnswer(valid) == IF valid THEN FISCAL_INTRACOM ELSE FISCAL_DOMESTIC

VatOut(fp, calls, vies, flash) ==
    [fp |-> fp, calls |-> calls, vies |-> vies, flash |-> flash]

\* lines 451-471: the fiscal position, over what the VAT service does.  vies is
\* "none" (not asked), "client_raise" (Client(...) raised, outside the try),
\* "valid", "invalid" or "raise" (checkVat raised, inside the try)
DeriveFiscalPosition(vat) ==
    IF IsSpanishNif(vat) THEN { VatOut(FISCAL_DOMESTIC, <<>>, "none", {}) }
    ELSE IF LooksUp(vat)
    THEN { VatOut(FISCAL_DOMESTIC, <<"vies.Client">>, "client_raise", {}),
           VatOut(FiscalAfterAnswer(TRUE), <<"vies.Client", "vies.checkVat">>,
                  "valid", {}),
           VatOut(FiscalAfterAnswer(FALSE), <<"vies.Client", "vies.checkVat">>,
                  "invalid", {"warning: VAT invalido"}),
           VatOut(FISCAL_DOMESTIC, <<"vies.Client", "vies.checkVat">>,
                  "raise", {"warning: Error al consultar VAT"}) }
    ELSE { VatOut(FISCAL_DOMESTIC, <<>>, "none", {}) }

NewOrder(partner_id, fp) ==
    [partner_id |-> partner_id, pricelist_id |-> PRICELIST_ORDER_ID,
     fiscal_position_id |-> fp, client_order_ref |-> EVENT_MARKER,
     team_id |-> SALES_TEAM_ID, state |-> "draft", warehouse_id |-> NoId,
     note |-> <<>>, payment_term_id |-> NoId, messages |-> 0, mails |-> 0]

\* what create_presupuesto did: the order values it sent, if it sent any
OrderInfo(vat, v, issued, partner_id, new_id) ==
    [vat |-> vat, vies |-> v.vies, fiscal_position_id |-> v.fp,
     create_issued |-> issued, partner_id |-> partner_id, presupuesto_id |-> new_id]

OrderOut(ords, calls, outcome, flash, info) ==
    [orders |-> ords, req |-> Served("create_presupuesto", calls, outcome, flash, info)]

\* the ERP's answers to sale.order create: a new id, no id, or a fault.  The
\* customer of a sale order is a required field of the ERP.
OrderCreateAnswers(ords, partner_id) ==
    {"status", "raise"} \cup
    (IF partner_id # NoId /\ Len(ords) < MaxOrders THEN {"ok"} ELSE {})

\* create_presupuesto(): every way the request can end
create_presupuesto(sess, ords, vat) ==
    IF VatRejected(vat)
    THEN { OrderOut(ords, <<>>, "redirect index", {"error: NIF/VAT invalido"},
                    OrderInfo(vat, VatOut(FISCAL_DOMESTIC, <<>>, "none", {}), FALSE,
                              NoId, NoId)) }
    ELSE UNION {
      IF v.vies = "client_raise"
      THEN { OrderOut(ords, v.calls, "unhandled", {},
                      OrderInfo(vat, v, FALSE, NoId, NoId)) }
      ELSE
        \* authenticate raises, or returns no uid
        { OrderOut(ords, v.calls \o <<"erp.authenticate">>, "unhandled", v.flash,
                   OrderInfo(vat, v, FALSE, NoId, NoId)),
          OrderOut(ords, v.calls \o <<"erp.authenticate">>, "redirect index",
                   v.flash \cup {"error: autenticacion"},
                   OrderInfo(vat, v, FALSE, NoId, NoId)) }
        \cup
        \* authenticated: sale.order create with session.get('partner_id')
        { LET calls == v.calls \o <<"erp.authenticate", "erp.sale.order.create">>
          IN CASE a = "ok" ->
                    OrderOut(Append(ords, NewOrder(sess, v.fp)), calls,
                             "redirect presupuesto_details",
                             v.flash \cup {"success: Presupuesto creado"},
                             OrderInfo(vat, v, TRUE, sess, Len(ords) + 1))
               [] a = "status" ->
                    OrderOut(ords, calls, "redirect index",
                             v.flash \cup {"error: crear el Presupuesto"},
                             OrderInfo(vat, v, TRUE, sess, NoId))
               [] a = "raise" ->
                    OrderOut(ords, calls, "unhandled", v.flash,
                             OrderInfo(vat, v, TRUE, sess, NoId))
          : a \in OrderCreateAnswers(ords, sess) }
      : v \in DeriveFiscalPosition(vat) }

-----------------------------------------------------------------------------
(* Input Validator *)

Letters == UpperLetters \cup LowerLetters
EmailLocalChars == Letters \cup Digits \cup {".", "_", "%", "+", "-"}
EmailDomainChars == Letters \cup Digits \cup {".", "-"}

AllIn(s, S) == \A i \in DOMAIN s : s[i] \in S

\* validate_email: ^[a-zA-Z0-9._%+-]+@[a-zA-Z0-9.-]+\.[a-zA-Z]{2,}$
validate_email(email) ==
    /\ email # <<>>
    /\ \E at \in 2..Len(email), dot \in 3..Len(email) :
         /\ email[at] = "@"
         /\ email[dot] = "."
         /\ at + 1 < dot
         /\ dot + 2 <= Len(email)
         /\ AllIn(SubSeq(email, 1, at - 1), EmailLocalChars)
         /\ AllIn(SubSeq(email, at + 1, dot - 1), EmailDomainChars)
         /\ AllIn(SubSeq(email, dot + 1, Len(email)), Letters)

-----------------------------------------------------------------------------
(* ERP Customer Resolver: save *)

\* a field of an ERP record that is either False or a value
Absent == <<>>
Present(v) == <<v>>

\* customer_tag.strip(), on the classification values of the forms
StripTag(t) == IF t = " mayorista " THEN "mayorista" ELSE t

\* tag_mapping.get(customer_tag, TAG_OTROS_ID)
TagIdOf(customer_tag) ==
    CASE customer_tag = "clinica_dental" -> TAG_CLINICA_DENTAL_ID
      [] customer_tag = "laboratorio" -> TAG_LABORATORIO_ID
      [] customer_tag = "estudiante" -> TAG_ESTUDIANTE_ID
      [] customer_tag = "mayorista" -> TAG_MAYORISTA_ID
      [] customer_tag = "otros" -> TAG_OTROS_ID
      [] OTHER -> TAG_OTROS_ID

TagIdsMandatoryFirst(customer_tag) ==
    MANDATORY_TAG_IDS \o <<TagIdOf(customer_tag)>>

\* tag_ids = [tag_id] + mandatory_tags
TagIdsOf(customer_tag) == <<TagIdOf(customer_tag)>> \o MANDATORY_TAG_IDS

PricelistAlwaysDefault(tag_id) == PRICELIST_DEFAULT_ID

\* PRICELIST_MAYORISTA_ID if tag_id == TAG_MAYORISTA_ID else PRICELIST_DEFAULT_ID
PricelistOf(tag_id) ==
    IF tag_id = TAG_MAYORISTA_ID THEN PRICELIST_MAYORISTA_ID ELSE PRICELIST_DEFAULT_ID

VatToWriteNoLength(vat) ==
    IF vat # <<>> /\ IsAlpha(Prefix(vat, 2)) THEN Present(vat) ELSE Absent

\* vat if vat and len(vat) >= 4 and vat[:2].isalpha() else False
VatToWrite(vat) ==
    IF vat # <<>> /\ Len(vat) >= 4 /\ IsAlpha(Prefix(vat, 2)) THEN Present(vat)
    ELSE Absent

\* the values save sends to res.partner create / write
PartnerVals(name, vat, email, customer_tag) ==
    [name |-> name, vat |-> VatToWrite(vat), email |-> email,
     category_id |-> TagIdsOf(customer_tag),
     property_product_pricelist |-> PricelistOf(TagIdOf(customer_tag))]

SearchPartnersAnd(ps, vat, email) ==
    LET Hit(i) == ps[i].vat = Present(vat) /\ ps[i].email = email
    IN SelectSeq([i \in 1..Len(ps) |-> i], Hit)

\* res.partner search ['|', ('vat', '=', vat), ('email', '=', email)]: the ids,
\* in order, of the matching customers
SearchPartners(ps, vat, email) ==
    LET Hit(i) == ps[i].vat = Present(vat) \/ ps[i].email = email
    IN SelectSeq([i \in 1..Len(ps) |-> i], Hit)

\* res.partner write [ids, vals]: every record of ids takes the values
WritePartners(ps, ids, vals) ==
    [i \in 1..Len(ps) |-> IF In(i, ids) THEN vals ELSE ps[i]]

SaveOut(ps, sess, calls, outcome, flash, info) ==
    [partners |-> ps, session |-> sess,
     req |-> Served("save", calls, outcome, flash, info)]

SaveInfo(form, path, ids, vals) ==
    [form |-> form, path |-> path, ids |-> ids, vals |-> vals]

\* the ERP's answers to res.partner create: a new id, no id, or a fault
PartnerCreateAnswers(ps) ==
    {"status", "raise"} \cup (IF Len(ps) < MaxPartners THEN {"ok"} ELSE {})

\* the calls issued up to and including the k-th of a list of calls
UpTo(calls, k) == SubSeq(calls, 1, k)

\* save(): every way the request can end.  form holds the submitted fields
save(sess, ps, form) ==
    LET name == Strip(form.name)
        vat == Strip(form.vat)
        email == Strip(form.email)
        customer_tag == StripTag(form.customer_tag)
        vals == PartnerVals(name, vat, email, customer_tag)
        none == SaveInfo(form, "none", <<>>, vals)
        lookups == <<"erp.authenticate", "erp.res.country.state.search",
                     "erp.res.country.search", "erp.res.partner.search">>
        existing_partner_ids == SearchPartners(ps, vat, email)
    IN
    IF name = <<>>
    THEN { SaveOut(ps, sess, <<>>, "redirect index", {"error: nombre obligatorio"},
                   none) }
    ELSE IF email # <<>> /\ ~validate_email(email)
    THEN { SaveOut(ps, sess, <<>>, "redirect index", {"error: email no valido"},
                   none) }
    ELSE
      \* authenticate returns no uid
      { SaveOut(ps, sess, <<"erp.authenticate">>, "json error", {}, none) }
      \cup
      \* authenticate or one of the three searches raises
      { SaveOut(ps, sess, UpTo(lookups, k), "unhandled", {}, none) : k \in 1..4 }
      \cup
      ( IF existing_partner_ids # <<>>
        THEN
          LET calls == lookups \o <<"erp.res.partner.write">>
              info == SaveInfo(form, "update", existing_partner_ids, vals)
          IN { SaveOut(WritePartners(ps, existing_partner_ids, vals),
                       existing_partner_ids[1], calls, "redirect create_presupuesto",
                       {"success: cliente actualizado"}, info),
               SaveOut(ps, sess, calls, "unhandled", {}, info) }
        ELSE
          LET calls == lookups \o <<"erp.res.partner.create">>
              info == SaveInfo(form, "create", <<>>, vals)
          IN { CASE a = "ok" ->
                      SaveOut(Append(ps, vals), Len(ps) + 1, calls,
                              "redirect create_presupuesto", {},
                              [info EXCEPT !.ids = <<Len(ps) + 1>>])
                 [] a = "status" ->
                      SaveOut(ps, sess, calls, "redirect create_presupuesto",
                              {"error: crear el cliente"}, info)
                 [] a = "raise" ->
                      SaveOut(ps, sess, calls, "unhandled", {}, info)
               : a \in PartnerCreateAnswers(ps) } )

-----------------------------------------------------------------------------
(* search *)

\* res.partner search ['|', ('vat', 'ilike', query), ('email', 'ilike', query)]
SearchPartnersIlike(ps, query) ==
    LET Hit(i) ==
          \/ ps[i].vat # Absent /\ IsSubstring(Lower(query), Lower(ps[i].vat[1]))
          \/ IsSubstring(Lower(query), Lower(ps[i].email))
    IN SelectSeq([i \in 1..Len(ps) |-> i], Hit)

SearchOut(sess, calls, outcome, flash, info) ==
    [session |-> sess, req |-> Served("search", calls, outcome, flash, info)]

\* search(): every way the request can end
search(sess, ps, form_query) ==
    LET query == Strip(form_query)
        partner_ids == SearchPartnersIlike(ps, query)
        info == [query |-> form_query, partner_ids |-> partner_ids]
        found == <<"erp.authenticate", "erp.res.partner.search",
                   "erp.res.partner.read", "erp.res.country.search_read">>
        missed == <<"erp.authenticate", "erp.res.partner.search">>
        countries == <<"erp.res.country.search_read">>
    IN
    IF query = <<>>
    THEN { SearchOut(sess, <<>>, "redirect index", {"warning: NIF o email"}, info) }
    ELSE
      { SearchOut(sess, <<"erp.authenticate">>, "json error", {}, info) }
      \cup
      \* authenticate or the customer search raises
      { SearchOut(sess, UpTo(missed, k), "unhandled", {}, info) : k \in 1..2 }
      \cup
      ( IF partner_ids # <<>>
        THEN { \* the read raises, before the session is touched
               SearchOut(sess, UpTo(found, 3), "unhandled", {}, info),
               \* session['partner_id'] = partner_ids[0], then the country list
               SearchOut(partner_ids[1], found, "unhandled", {}, info),
               SearchOut(partner_ids[1], found, "render search", {}, info) }
        ELSE IF Len(query) > 2
        THEN { SearchOut(sess, missed \o <<"vies.Client">>, "unhandled", {}, info) }
             \cup
             UNION {
               { SearchOut(sess, missed \o <<"vies.Client", "vies.checkVat">>
                                  \o countries, "unhandled", f, info),
                 SearchOut(sess, missed \o <<"vies.Client", "vies.checkVat">>
                                  \o countries, "render search", f, info) }
               : f \in { {"success: VIES"}, {"warning: VIES"}, {"error: VIES"} } }
        ELSE { SearchOut(sess, missed \o countries, "unhandled", {}, info),
               SearchOut(sess, missed \o countries, "render search", {}, info) } )

-----------------------------------------------------------------------------
(* Quotation Workflow: presupuesto_details *)

\* the ERP's product catalog: reference code and list price
Catalog == << [default_code |-> <<"P", "1">>, list_price |-> 5],
              [default_code |-> <<"x", "2">>, list_price |-> 7] >>

\* product.product search [['default_code', 'ilike', product_code]]
SearchProducts(product_code) ==
    LET Hit(i) == IsSubstring(Lower(product_code), Lower(Catalog[i].default_code))
    IN SelectSeq([i \in 1..Len(Catalog) |-> i], Hit)

\* custom_prices_lower = {k.lower(): v for k, v in custom_prices.items()}: a
\* table is the list of the file's (key, price) entries, in the file's order;
\* a later entry replaces an earlier one with the same lower-cased key
RECURSIVE LowerKeys(_)
LowerKeys(table) ==
    IF table = <<>> THEN <<>>
    ELSE LET last == table[Len(table)]
             rest == LowerKeys(SubSeq(table, 1, Len(table) - 1))
             Other(e) == e.key # Lower(last.key)
         IN IF \E i \in DOMAIN rest : rest[i].key = Lower(last.key)
            THEN [i \in DOMAIN rest |->
                    IF rest[i].key = Lower(last.key)
                    THEN [key |-> rest[i].key, price |-> last.price]
                    ELSE rest[i]]
            ELSE Append(rest, [key |-> Lower(last.key), price |-> last.price])

CustomPriceExactCase(price_file, product_code) ==
    IF \E i \in DOMAIN price_file.table : price_file.table[i].key = product_code
    THEN Present(price_file.table[
             CHOOSE i \in DOMAIN price_file.table :
                 price_file.table[i].key = product_code].price)
    ELSE Absent

\* custom_prices_lower.get(product_code); price_file is the file
\* price_list_feira.json: whether it exists, and its table
CustomPrice(price_file, product_code) ==
    LET custom_prices_lower ==
          IF price_file.exists THEN LowerKeys(price_file.table) ELSE <<>>
    IN IF \E i \in DOMAIN custom_prices_lower :
             custom_prices_lower[i].key = product_code
       THEN Present(custom_prices_lower[
                CHOOSE i \in DOMAIN custom_prices_lower :
                    custom_prices_lower[i].key = product_code].price)
       ELSE Absent

\* int(text) of a form field: the digits the model uses, signed, blanks around
IsIntText(text) ==
    LET t == Strip(text)
    IN \/ IsDigit(t)
       \/ Len(t) > 1 /\ t[1] \in {"-", "+"} /\ IsDigit(Tail(t))

RECURSIVE NatOf(_)
NatOf(digits) ==
    IF digits = <<>> THEN 0
    ELSE 10 * NatOf(SubSeq(digits, 1, Len(digits) - 1))
         + ( CASE digits[Len(digits)] = "0" -> 0 [] digits[Len(digits)] = "1" -> 1
               [] digits[Len(digits)] = "2" -> 2 [] digits[Len(digits)] = "3" -> 3 )

IntOf(text) ==
    LET t == Strip(text)
    IN IF t[1] = "-" THEN 0 - NatOf(Tail(t))
       ELSE IF t[1] = "+" THEN NatOf(Tail(t)) ELSE NatOf(t)

NewLine(order_id, product_id, qty, price_unit) ==
    [order_id |-> order_id, product_id |-> product_id, product_uom_qty |-> qty,
     price_unit |-> price_unit, exists |-> TRUE]

\* a line after unlink
Unlinked == [order_id |-> NoId, product_id |-> NoId, product_uom_qty |-> 0,
             price_unit |-> Absent, exists |-> FALSE]

OrderExists(ords, id) == id \in 1..Len(ords)

\* the ERP's answers to sale.order.line create: the ERP accepts lines on draft
\* and on confirmed orders alike
LineCreateAnswers(ords, lines, presupuesto_id) ==
    {"status", "raise"} \cup
    (IF OrderExists(ords, presupuesto_id) /\ Len(lines) < MaxLines THEN {"ok"}
     ELSE {})

DetailsOut(lines, calls, outcome, flash, info) ==
    [order_lines |-> lines,
     req |-> Served("presupuesto_details", calls, outcome, flash, info)]

DetailsInfo(presupuesto_id, method, form, price_file, created, vals) ==
    [presupuesto_id |-> presupuesto_id, method |-> method, form |-> form,
     price_file |-> price_file, created |-> created, vals |-> vals]

\* lines 552-557: read the order and its lines, render
DetailsTail(ords, lines, calls, flash, info) ==
    { DetailsOut(lines, calls \o <<"erp.sale.order.read">>, "unhandled", flash, info),
      DetailsOut(lines, calls \o <<"erp.sale.order.read",
                                   "erp.sale.order.line.search_read">>,
                 "unhandled", flash, info) }
    \cup
    ( IF OrderExists(ords, info.presupuesto_id)
      THEN { DetailsOut(lines, calls \o <<"erp.sale.order.read",
                                          "erp.sale.order.line.search_read">>,
                        "render presupuesto", flash, info) }
      ELSE {} )

\* presupuesto_details(presupuesto_id): every way the request can end.  form
\* holds product_code and product_qty (has_qty: the field was submitted)
presupuesto_details(ords, lines, price_file, presupuesto_id, method, form) ==
    LET none == DetailsInfo(presupuesto_id, method, form, price_file, NoId, Unlinked)
        auth == <<"erp.authenticate">>
    IN
    { DetailsOut(lines, auth, "unhandled", {}, none),
      DetailsOut(lines, auth, "redirect index", {"error: autenticacion"}, none) }
    \cup
    IF method = "GET" THEN DetailsTail(ords, lines, auth, {}, none)
    ELSE
      LET product_code == Lower(Strip(form.product_code)) IN
      IF form.has_qty /\ ~IsIntText(form.product_qty)
      THEN \* int() raises ValueError
           { DetailsOut(lines, auth, "unhandled ValueError", {}, none) }
      ELSE
        LET product_qty == IF form.has_qty THEN IntOf(form.product_qty) ELSE 1
            custom_price == CustomPrice(price_file, product_code)
            product_ids == SearchProducts(product_code)
            searched == auth \o <<"erp.product.product.search">>
        IN
        IF product_code = <<>>
        THEN DetailsTail(ords, lines, auth, {"warning: codigo de producto"}, none)
        ELSE
          { DetailsOut(lines, searched, "unhandled", {}, none) }
          \cup
          IF product_ids = <<>>
          THEN DetailsTail(ords, lines, searched, {"error: Producto no encontrado"},
                           none)
          ELSE
            LET vals == NewLine(presupuesto_id, product_ids[1], product_qty,
                                custom_price)
                calls == searched \o <<"erp.sale.order.line.create">>
                sent == DetailsInfo(presupuesto_id, method, form, price_file, NoId, vals)
            IN UNION {
                 CASE a = "ok" ->
                        DetailsTail(ords, Append(lines, vals), calls,
                                    {"success: Producto anadido"},
                                    [sent EXCEPT !.created = Len(lines) + 1])
                   [] a = "status" ->
                        DetailsTail(ords, lines, calls,
                                    {"error: anadir el producto"}, sent)
                   [] a = "raise" ->
                        { DetailsOut(lines, calls, "unhandled", {}, sent) }
                 : a \in LineCreateAnswers(ords, lines, presupuesto_id) }

-----------------------------------------------------------------------------
(* Quotation Workflow: delete_product *)

LineExists(lines, id) == id \in 1..Len(lines) /\ lines[id].exists

DeleteOut(lines, calls, outcome, flash, info) ==
    [order_lines |-> lines,
     req |-> Served("delete_product", calls, outcome, flash, info)]

OwnerLookupFailedUnlinks(lines, line_id, calls) ==
    { DeleteOut(IF LineExists(lines, line_id)
                THEN [lines EXCEPT ![line_id] = Unlinked] ELSE lines,
                calls \o <<"erp.sale.order.line.unlink">>, "redirect index",
                {"error: detalles del producto"},
                [line_id |-> line_id, presupuesto_id |-> NoId, unlinked |-> TRUE]) }

\* lines 755-759: the except of the owning order's lookup: a generic error, and
\* the handler returns
OwnerLookupFailed(lines, line_id, calls) ==
    { DeleteOut(lines, calls, "redirect index", {"error: detalles del producto"},
                [line_id |-> line_id, presupuesto_id |-> NoId, unlinked |-> FALSE]) }

\* delete_product(line_id): every way the request can end
delete_product(lines, line_id) ==
    LET auth == <<"erp.authenticate">>
        read == auth \o <<"erp.sale.order.line.read">>
        unlink == read \o <<"erp.sale.order.line.unlink">>
        info(owner, state) == [line_id |-> line_id, presupuesto_id |-> owner,
                               unlinked |-> state]
    IN
    { DeleteOut(lines, auth, "unhandled", {}, info(NoId, FALSE)),
      DeleteOut(lines, auth, "redirect index", {"error: autenticacion"},
                info(NoId, FALSE)) }
    \cup
    \* the read raises, or returns no line
    OwnerLookupFailed(lines, line_id, read)
    \cup
    ( IF LineExists(lines, line_id)
      THEN LET presupuesto_id == lines[line_id].order_id
           IN { \* unlink answers True
                DeleteOut([lines EXCEPT ![line_id] = Unlinked], unlink,
                          "redirect presupuesto_details",
                          {"success: Producto eliminado"},
                          info(presupuesto_id, TRUE)),
                \* unlink answers False, or raises: caught
                DeleteOut(lines, unlink, "redirect presupuesto_details",
                          {"error: eliminar el producto"},
                          info(presupuesto_id, FALSE)) }
      ELSE {} )

-----------------------------------------------------------------------------
(* Quotation Workflow: confirm_presupuesto *)

\* tag_map_reverse
TagNameOf(cat_id) ==
    CASE cat_id = TAG_MAYORISTA_ID -> "mayorista"
      [] cat_id = TAG_CLINICA_DENTAL_ID -> "clinica_dental"
      [] cat_id = TAG_LABORATORIO_ID -> "laboratorio"
      [] cat_id = TAG_ESTUDIANTE_ID -> "estudiante"
      [] cat_id = TAG_OTROS_ID -> "otros"
      [] OTHER -> None

\* partner_data.get("category_id", []): the ERP returns the customer's tag ids
\* in an order of its own choosing
ReadOrders(ids) ==
    { [i \in DOMAIN ids |-> ids[p[i]]] : p \in Permutations(DOMAIN ids) }

DeriveCustomerTagHead(category_ids) ==
    IF category_ids = <<>> THEN None ELSE TagNameOf(category_ids[1])

\* for cat_id in category_ids: if cat_id in tag_map_reverse: ...; break
DeriveCustomerTag(category_ids) ==
    LET known == {i \in DOMAIN category_ids : TagNameOf(category_ids[i]) # None}
    IN IF known = {} THEN None ELSE TagNameOf(category_ids[Min(known)])

\* the price the ERP bills a line at: its unit price, or the list price
LinePrice(line) ==
    IF line.price_unit # Absent THEN line.price_unit[1]
    ELSE Catalog[line.product_id].list_price

RECURSIVE SumLines(_, _)
SumLines(lines, order_id) ==
    IF lines = <<>> THEN 0
    ELSE SumLines(Tail(lines), order_id)
         + ( IF Head(lines).exists /\ Head(lines).order_id = order_id
             THEN Head(lines).product_uom_qty * LinePrice(Head(lines))
             ELSE 0 )

\* amount_total of an order, as the ERP computes it
AmountTotal(lines, order_id) == SumLines(lines, order_id)

ConfirmOut(ords, cs, calls, outcome, flash, info) ==
    [orders |-> ords, contacts |-> cs,
     req |-> Served("confirm_presupuesto", calls, outcome, flash, info)]

\* what confirm_presupuesto did: the payload given to the reconciler, what the
\* CRM answered to each of its calls, the contact id, the order value sent and
\* the answer to it, and the answer of action_confirm ("none": not called)
ConfirmInfo(presupuesto_id, client_info, crm_step, crm_answers, clientify_id,
            valor, valor_answer, confirm_answer) ==
    [presupuesto_id |-> presupuesto_id, client_info |-> client_info,
     crm_step |-> crm_step, crm_answers |-> crm_answers,
     clientify_id |-> clientify_id, valor |-> valor,
     valor_answer |-> valor_answer, action_confirm |-> confirm_answer]

NoClient == [email |-> <<>>, customer_tag |-> None]

\* if CLIENTIFY_ENABLED (line 620)
SyncsCrm(enabled) == enabled

ConfirmTailFirst(ords, cs, calls, flash, info) ==
    { ConfirmOut([ords EXCEPT ![info.presupuesto_id].state = "sale"], cs,
                 <<"erp.sale.order.action_confirm">> \o calls, "redirect payment",
                 flash \cup {"success: pedido"},
                 [info EXCEPT !.action_confirm = "ok"]) }

ConfirmTailRetries(ords, cs, calls, flash, info) ==
    LET id == info.presupuesto_id
        once == calls \o <<"erp.sale.order.action_confirm">>
        twice == once \o <<"erp.sale.order.action_confirm">>
    IN { ConfirmOut([ords EXCEPT ![id].state = "sale"], cs, once, "redirect payment",
                    flash \cup {"success: pedido"},
                    [info EXCEPT !.action_confirm = "ok"]),
         ConfirmOut(ords, cs, twice, "redirect payment",
                    flash \cup {"error: transformar el presupuesto"},
                    [info EXCEPT !.action_confirm = "raise"]) }

\* lines 654-662: action_confirm inside its try, then the redirect
ConfirmTail(ords, cs, calls, flash, info) ==
    LET id == info.presupuesto_id
        all == calls \o <<"erp.sale.order.action_confirm">>
    IN { ConfirmOut([ords EXCEPT ![id].state = "sale"], cs, all, "redirect payment",
                    flash \cup {"success: pedido"},
                    [info EXCEPT !.action_confirm = "ok"]),
         ConfirmOut(ords, cs, all, "redirect payment",
                    flash \cup {"error: transformar el presupuesto"},
                    [info EXCEPT !.action_confirm = "raise"]) }

\* lines 619-652: the CRM step, then the rest of the handler
ConfirmCrm(enabled, ords, lines, cs, calls, info) ==
    IF ~SyncsCrm(enabled) THEN ConfirmTail(ords, cs, calls, {}, info)
    ELSE UNION {
      LET after == [info EXCEPT !.crm_step = TRUE, !.crm_answers = r.answers,
                                !.clientify_id = r.id]
      IN IF r.raised
         THEN \* the exception leaves create_or_update_client_in_clientify and
              \* the handler: the call is outside the try of line 624
              { ConfirmOut(ords, r.contacts, calls \o r.calls, "unhandled", {},
                           after) }
         ELSE IF r.id # NoId
         THEN LET total == AmountTotal(lines, info.presupuesto_id)
                  sent == [after EXCEPT !.valor = Present(total)]
                  patched == calls \o r.calls \o <<"crm.PATCH.valor">>
              IN ConfirmTail(ords, [r.contacts EXCEPT ![r.id].valor = total],
                             patched, {}, [sent EXCEPT !.valor_answer = "ok"])
                 \cup
                 ConfirmTail(ords, r.contacts, patched, {},
                             [sent EXCEPT !.valor_answer = "status"])
                 \cup
                 ConfirmTail(ords, r.contacts, patched, {},
                             [sent EXCEPT !.valor_answer = "raise"])
         ELSE ConfirmTail(ords, r.contacts, calls \o r.calls, {}, after)
      : r \in Reconcile(enabled, cs, info.client_info) }

\* confirm_presupuesto(presupuesto_id): every way the request can end
confirm_presupuesto(enabled, ps, ords, lines, cs, presupuesto_id) ==
    LET none == ConfirmInfo(presupuesto_id, NoClient, FALSE, <<>>, NoId, Absent,
                            "none", "none")
        auth == <<"erp.authenticate">>
        read == auth \o <<"erp.sale.order.read">>
        partner == read \o <<"erp.res.partner.read">>
        write == partner \o <<"erp.sale.order.write">>
    IN
    \* odoo_authenticate returns no uid (authenticate answered False, or raised)
    { ConfirmOut(ords, cs, auth, "redirect index", {"error: autenticacion"}, none),
      \* the order read raises
      ConfirmOut(ords, cs, read, "unhandled", {}, none) }
    \cup
    IF ~OrderExists(ords, presupuesto_id)
    THEN { ConfirmOut(ords, cs, read, "redirect index",
                      {"error: buscar el presupuesto"}, none) }
    ELSE UNION {
      LET partner_data == ps[ords[presupuesto_id].partner_id]
          client_info == [email |-> partner_data.email,
                          customer_tag |-> DeriveCustomerTag(category_ids)]
          info == [none EXCEPT !.client_info = client_info]
      IN
      \* the customer read raises
      { ConfirmOut(ords, cs, partner, "unhandled", {}, none) }
      \cup
      \* the warehouse write succeeds
      ConfirmCrm(enabled, [ords EXCEPT ![presupuesto_id].warehouse_id = WAREHOUSE_ID],
                 lines, cs, write, info)
      \cup
      \* the warehouse write raises: caught
      ConfirmCrm(enabled, ords, lines, cs, write, info)
      : category_ids \in ReadOrders(ps[ords[presupuesto_id].partner_id].category_id) }

-----------------------------------------------------------------------------
(* Quotation Workflow: send_email *)

\* markupsafe.escape of one character
EscapeChar(c) ==
    CASE c = "&" -> <<"&", "a", "m", "p", ";">>
      [] c = "<" -> <<"&", "l", "t", ";">>
      [] c = ">" -> <<"&", "g", "t", ";">>
      [] c = "'" -> <<"&", "#", "3", "9", ";">>
      [] c = "\"" -> <<"&", "#", "3", "4", ";">>
      [] OTHER -> <<c>>

RECURSIVE Escape(_)
Escape(s) == IF s = <<>> THEN <<>> ELSE EscapeChar(Head(s)) \o Escape(Tail(s))

\* sanitize_string(value): "" for an empty value, else the stripped value escaped
sanitize_string(value) == IF value = <<>> THEN <<>> ELSE Escape(Strip(value))

\* PAYMENT_TERM_CASH_ID if payment_type == 'cash' else PAYMENT_TERM_CARD_ID
PaymentTermOf(payment_type) ==
    IF payment_type = "cash" THEN PAYMENT_TERM_CASH_ID ELSE PAYMENT_TERM_CARD_ID

EmailOut(ords, calls, outcome, flash, info) ==
    [orders |-> ords, req |-> Served("send_email", calls, outcome, flash, info)]

\* what send_email did: the note and payment term it derived and the ERP's
\* answer to each of its three steps ("none": the step was not attempted)
EmailInfo(presupuesto_id, note, payment_term_id, message_post, write, send_mail) ==
    [presupuesto_id |-> presupuesto_id, note |-> note,
     payment_term_id |-> payment_term_id, template |-> EMAIL_TEMPLATE_ID,
     message_post |-> message_post, write |-> write, send_mail |-> send_mail]

\* the ERP's answers to message_post on the order: it raises on a missing order
MessagePostAnswers(ords, presupuesto_id) ==
    {"raise"} \cup
    (IF OrderExists(ords, presupuesto_id) /\ ords[presupuesto_id].messages < MaxMails
     THEN {"ok"} ELSE {})

\* the ERP's answers to sale.order write: a Fault, or another exception
\* (transport), or the write is done
OrderWriteAnswers(ords, presupuesto_id) ==
    {"fault", "raise"} \cup (IF OrderExists(ords, presupuesto_id) THEN {"ok"} ELSE {})

\* the ERP's answers to mail.template send_mail for the order
SendMailAnswers(ords, presupuesto_id) ==
    {"raise"} \cup
    (IF OrderExists(ords, presupuesto_id) /\ ords[presupuesto_id].mails < MaxMails
     THEN {"ok"} ELSE {})

\* lines 707-715: send the templated email
SendMailStep(ords, calls, info) ==
    LET id == info.presupuesto_id
        all == calls \o <<"erp.mail.template.send_mail">>
    IN { IF a = "ok"
         THEN EmailOut([ords EXCEPT ![id].mails = @ + 1], all, "json success",
                       {"success: E-mail enviado"}, [info EXCEPT !.send_mail = "ok"])
         ELSE EmailOut(ords, all, "json error 500", {},
                       [info EXCEPT !.send_mail = "raise"])
         : a \in SendMailAnswers(ords, id) }

\* lines 699-705: write note and payment term; only xmlrpc.client.Fault is caught
WriteFieldsStep(ords, calls, info) ==
    LET id == info.presupuesto_id
        all == calls \o <<"erp.sale.order.write">>
    IN UNION {
         CASE a = "ok" ->
                SendMailStep([ords EXCEPT ![id].note = info.note,
                                          ![id].payment_term_id = info.payment_term_id],
                             all, [info EXCEPT !.write = "ok"])
           [] a = "fault" ->
                { EmailOut(ords, all, "json error 500", {},
                           [info EXCEPT !.write = "fault"]) }
           [] a = "raise" ->
                { EmailOut(ords, all, "unhandled", {}, [info EXCEPT !.write = "raise"]) }
         : a \in OrderWriteAnswers(ords, id) }

\* send_email(presupuesto_id): every way the request can end.  form holds note
\* and paymentType
send_email(ords, presupuesto_id, form) ==
    LET note == sanitize_string(form.note)
        payment_term_id == PaymentTermOf(form.paymentType)
        none == EmailInfo(presupuesto_id, note, payment_term_id, "none", "none", "none")
        auth == <<"erp.authenticate">>
        posted == auth \o <<"erp.sale.order.message_post">>
    IN
    { EmailOut(ords, auth, "unhandled", {}, none),
      EmailOut(ords, auth, "json error 401", {"error: autenticacion"}, none) }
    \cup
    IF note # <<>>
    THEN UNION {
           IF a = "ok"
           THEN WriteFieldsStep([ords EXCEPT ![presupuesto_id].messages = @ + 1],
                                posted, [none EXCEPT !.message_post = "ok"])
           ELSE \* caught: the handler returns
                { EmailOut(ords, posted, "json error 500", {},
                           [none EXCEPT !.message_post = "raise"]) }
           : a \in MessagePostAnswers(ords, presupuesto_id) }
    ELSE WriteFieldsStep(ords, auth, none)

-----------------------------------------------------------------------------
(* Quotation Workflow: send_email_presupuesto, payment *)

MailOut(ords, calls, outcome, flash, info) ==
    [orders |-> ords,
     req |-> Served("send_email_presupuesto", calls, outcome, flash, info)]

\* send_email_presupuesto(presupuesto_id): every way the request can end
send_email_presupuesto(ords, presupuesto_id) ==
    LET auth == <<"erp.authenticate">>
        sent == auth \o <<"erp.mail.template.send_mail">>
        info(a) == [presupuesto_id |-> presupuesto_id, template |-> EMAIL_TEMPLATE_ID,
                    send_mail |-> a]
    IN
    { MailOut(ords, auth, "unhandled", {}, info("none")),
      MailOut(ords, auth, "redirect index", {"error: autenticacion"}, info("none")) }
    \cup
    { IF a = "ok"
      THEN MailOut([ords EXCEPT ![presupuesto_id].mails = @ + 1], sent,
                   "redirect presupuesto_details", {"success: E-mail enviado"},
                   info("ok"))
      ELSE \* caught: flash(str(e))
           MailOut(ords, sent, "redirect presupuesto_details", {"error: send_mail"},
                   info("raise"))
      : a \in SendMailAnswers(ords, presupuesto_id) }

PaymentOut(calls, outcome, flash, info) ==
    [req |-> Served("payment", calls, outcome, flash, info)]

\* payment(presupuesto_id): every way the request can end
payment(ords, presupuesto_id) ==
    LET auth == <<"erp.authenticate">>
        read == auth \o <<"erp.sale.order.read">>
        info == [presupuesto_id |-> presupuesto_id]
    IN
    \* odoo_authenticate returns no uid (authenticate answered False, or raised)
    { PaymentOut(auth, "redirect index", {"error: autenticacion"}, info),
      \* the order read raises
      PaymentOut(read, "unhandled", {}, info),
      IF OrderExists(ords, presupuesto_id)
      THEN PaymentOut(read, "render payment", {}, info)
      ELSE PaymentOut(read, "redirect index", {"error: buscar el presupuesto"}, info) }

-----------------------------------------------------------------------------
(* Inputs of the requests *)

EmailA == <<"a", "@", "x", ".", "e", "s">>
EmailAUpper == <<"A", "@", "x", ".", "e", "s">>
EmailB == <<"b", "@", "x", ".", "e", "s">>
BadEmail == <<"a", "@", "x">>

VatPT == <<"P", "T", "1", "2">>
VatES == <<"E", "S", "1", "2">>

\* a customer as save writes it
Customer(vat, email, customer_tag) == PartnerVals(<<"A">>, vat, email, customer_tag)

SaveForm(name, vat, email, customer_tag) ==
    [name |-> name, vat |-> vat, email |-> email, customer_tag |-> customer_tag]

-----------------------------------------------------------------------------
(* The actions: one request each *)

\* POST /search
Search(queries) ==
    \E query \in queries :
      \E out \in search(session_partner_id, partners, query) :
        /\ session_partner_id' = out.session
        /\ req' = out.req
        /\ UNCHANGED <<threads, clientify_enabled, partners, orders, order_lines, contacts>>

\* POST /save
Save(forms) ==
    \E form \in forms :
      \E out \in save(session_partner_id, partners, form) :
        /\ partners' = out.partners
        /\ session_partner_id' = out.session
        /\ req' = out.req
        /\ UNCHANGED <<threads, clientify_enabled, orders, order_lines, contacts>>

\* GET /create_presupuesto?vat=
CreatePresupuesto(vats) ==
    \E vat \in vats :
      \E out \in create_presupuesto(session_partner_id, orders, vat) :
        /\ orders' = out.orders
        /\ req' = out.req
        /\ UNCHANGED <<threads, clientify_enabled, session_partner_id, partners, order_lines,
                       contacts>>

\* GET or POST /presupuesto_details/<presupuesto_id>
PresupuestoDetails(methods, forms, price_files) ==
    \E presupuesto_id \in 1..(Len(orders) + 1), method \in methods, form \in forms,
       price_file \in price_files :
      \E out \in presupuesto_details(orders, order_lines, price_file, presupuesto_id,
                                     method, form) :
        /\ order_lines' = out.order_lines
        /\ req' = out.req
        /\ UNCHANGED <<threads, clientify_enabled, session_partner_id, partners, orders,
                       contacts>>

\* POST /delete_product/<line_id>
DeleteProduct ==
    \E line_id \in 1..(Len(order_lines) + 1) :
      \E out \in delete_product(order_lines, line_id) :
        /\ order_lines' = out.order_lines
        /\ req' = out.req
        /\ UNCHANGED <<threads, clientify_enabled, session_partner_id, partners, orders,
                       contacts>>

\* POST /confirm_presupuesto/<presupuesto_id>
ConfirmPresupuesto ==
    \E presupuesto_id \in 1..(Len(orders) + 1) :
      \E out \in confirm_presupuesto(clientify_enabled, partners, orders,
                                     order_lines, contacts, presupuesto_id) :
        /\ orders' = out.orders
        /\ contacts' = out.contacts
        /\ req' = out.req
        /\ UNCHANGED <<threads, clientify_enabled, session_partner_id, partners, order_lines>>

\* POST /send_email/<presupuesto_id>
SendEmail(forms) ==
    \E presupuesto_id \in 1..(Len(orders) + 1), form \in forms :
      \E out \in send_email(orders, presupuesto_id, form) :
        /\ orders' = out.orders
        /\ req' = out.req
        /\ UNCHANGED <<threads, clientify_enabled, session_partner_id, partners, order_lines,
                       contacts>>

\* POST /send_email_presupuesto/<presupuesto_id>
SendEmailPresupuesto ==
    \E presupuesto_id \in 1..(Len(orders) + 1) :
      \E out \in send_email_presupuesto(orders, presupuesto_id) :
        /\ orders' = out.orders
        /\ req' = out.req
        /\ UNCHANGED <<threads, clientify_enabled, session_partner_id, partners,
                       order_lines, contacts>>

\* GET /payment/<presupuesto_id>
Payment ==
    \E presupuesto_id \in 1..(Len(orders) + 1) :
      \E out \in payment(orders, presupuesto_id) :
        /\ req' = out.req
        /\ UNCHANGED <<threads, clientify_enabled, session_partner_id, partners, orders,
                       order_lines, contacts>>

\* one call of create_or_update_client_in_clientify
CallReconcile(emails, tipos) ==
    \E email \in emails, tipo \in tipos :
      LET cd == [email |-> email, customer_tag |-> tipo]
      IN \E out \in Reconcile(clientify_enabled, contacts, cd) :
           /\ contacts' = out.contacts
           /\ req' = Served("create_or_update_client_in_clientify", out.calls,
                            IF out.raised THEN "unhandled" ELSE "response", {},
                            [client_data |-> cd,
                             matched |-> out.matched,
                             existing_tags |->
                               IF out.matched = NoId THEN <<>>
                               ELSE contacts[out.matched].tags,
                             answers |-> out.answers, tag |-> out.tag, id |-> out.id,
                             patch_tags |-> out.patch_tags,
                             post_tags |-> out.post_tags])
           /\ UNCHANGED <<threads, clientify_enabled, session_partner_id, partners, orders,
                          order_lines>>

-----------------------------------------------------------------------------
(* Concurrent confirm requests.  The server serves each request in a thread  *)
(* of its own and the handlers take no lock: a confirm_presupuesto request   *)
(* is a sequence of remote calls, and the calls of two requests interleave.  *)
(* A thread keeps what its request holds in local variables.                 *)

Workers == 1..MaxThreads

IdleThread ==
    [pc |-> "idle", calls |-> <<>>, got |-> "none", seen |-> <<>>, matched |-> NoId,
     total |-> 0, outcome |-> "none", flash |-> {},
     info |-> ConfirmInfo(NoId, NoClient, FALSE, <<>>, NoId, Absent, "none", "none")]

NoThreads == [w \in Workers |-> IdleThread]

\* the request of thread w ends: the thread holds its response
ThreadEnds(w, t, outcome, flash) ==
    /\ threads' = [threads EXCEPT ![w] = [t EXCEPT !.pc = "done",
                                                   !.outcome = outcome,
                                                   !.flash = flash]]
    /\ UNCHANGED req

\* lines 563-618: authenticate, read the order and its customer, write the
\* warehouse
ThreadBegin(w) ==
    /\ threads[w].pc = "idle"
    /\ \E presupuesto_id \in 1..Len(orders), step \in {"no uid", "read raises", "ok"},
          warehouse \in {"ok", "raise"} :
       \E category_ids \in
            ReadOrders(partners[orders[presupuesto_id].partner_id].category_id) :
         LET t == threads[w]
             partner_data == partners[orders[presupuesto_id].partner_id]
             client_info == [email |-> partner_data.email,
                             customer_tag |-> DeriveCustomerTag(category_ids)]
             none == [t.info EXCEPT !.presupuesto_id = presupuesto_id]
         IN CASE step = "no uid" ->
                   /\ ThreadEnds(w, [t EXCEPT !.calls = <<"erp.authenticate">>,
                                              !.info = none],
                                 "redirect index", {"error: autenticacion"})
                   /\ UNCHANGED orders
              [] step = "read raises" ->
                   /\ ThreadEnds(w, [t EXCEPT !.calls = <<"erp.authenticate",
                                                          "erp.sale.order.read">>,
                                              !.info = none],
                                 "unhandled", {})
                   /\ UNCHANGED orders
              [] step = "ok" ->
                   /\ threads' =
                        [threads EXCEPT ![w] =
                           [t EXCEPT !.pc = IF SyncsCrm(clientify_enabled)
                                            THEN "get" ELSE "confirm",
                                     !.calls = <<"erp.authenticate",
                                                 "erp.sale.order.read",
                                                 "erp.res.partner.read",
                                                 "erp.sale.order.write">>,
                                     !.total = AmountTotal(order_lines, presupuesto_id),
                                     !.info = [none EXCEPT !.client_info = client_info]]]
                   /\ orders' = IF warehouse = "ok"
                                THEN [orders EXCEPT
                                        ![presupuesto_id].warehouse_id = WAREHOUSE_ID]
                                ELSE orders
                   /\ UNCHANGED req
    /\ UNCHANGED <<clientify_enabled, session_partner_id, partners, order_lines,
                   contacts>>

\* lines 145-152: GET contacts/?search=<email>, and the exact match among the
\* results
ThreadGet(w) ==
    /\ threads[w].pc = "get"
    /\ \E got \in {"ok", "status", "raise"} :
         LET t == [threads[w] EXCEPT !.calls = @ \o <<"crm.GET">>,
                                     !.got = got,
                                     !.info.crm_step = TRUE,
                                     !.info.crm_answers = <<got>>]
             id == ExactMatch(contacts, t.info.client_info.email)
         IN CASE got = "raise" -> ThreadEnds(w, t, "unhandled", {})
              [] got = "status" ->
                   /\ threads' = [threads EXCEPT ![w] = [t EXCEPT !.pc = "post"]]
                   /\ UNCHANGED req
              [] got = "ok" ->
                   /\ threads' = [threads EXCEPT ![w] =
                                    [t EXCEPT !.pc = IF id # NoId THEN "patch" ELSE "post",
                                              !.seen = contacts,
                                              !.matched = id]]
                   /\ UNCHANGED req
    /\ UNCHANGED <<clientify_enabled, session_partner_id, partners, orders,
                   order_lines, contacts>>

\* lines 154-189: merge the tags the search returned, PATCH the contact
ThreadPatch(w) ==
    /\ threads[w].pc = "patch"
    /\ \E a \in {"ok", "status", "raise"} :
         LET id == threads[w].matched
             tipo == threads[w].info.client_info.customer_tag
             novas_tags == MergeTags(threads[w].seen[id].tags, tipo)
             t == [threads[w] EXCEPT !.calls = @ \o <<"crm.PATCH.contact">>,
                                     !.info.crm_answers = @ \o <<a>>]
         IN CASE a = "raise" -> ThreadEnds(w, t, "unhandled", {}) /\ UNCHANGED contacts
              [] OTHER ->
                   /\ threads' = [threads EXCEPT ![w] =
                                    [t EXCEPT !.pc = "valor",
                                              !.info.clientify_id = id]]
                   /\ contacts' = IF a = "ok"
                                  THEN [contacts EXCEPT ![id].tags = novas_tags]
                                  ELSE contacts
                   /\ UNCHANGED req
    /\ UNCHANGED <<clientify_enabled, session_partner_id, partners, orders, order_lines>>

\* lines 192-222: POST a new contact
ThreadPost(w) ==
    /\ threads[w].pc = "post"
    /\ \E a \in {"status", "raise"} \cup
                (IF Len(contacts) < MaxContacts THEN {"ok"} ELSE {}) :
         LET cd == threads[w].info.client_info
             t == [threads[w] EXCEPT !.calls = @ \o <<"crm.POST">>,
                                     !.info.crm_answers = @ \o <<a>>]
         IN CASE a = "raise" -> ThreadEnds(w, t, "unhandled", {}) /\ UNCHANGED contacts
              [] a = "status" ->
                   /\ threads' = [threads EXCEPT ![w] = [t EXCEPT !.pc = "confirm"]]
                   /\ UNCHANGED <<contacts, req>>
              [] a = "ok" ->
                   /\ threads' = [threads EXCEPT ![w] =
                                    [t EXCEPT !.pc = "valor",
                                              !.info.clientify_id = Len(contacts) + 1]]
                   /\ contacts' = Append(contacts,
                                         NewContact(cd.email,
                                                    NewContactTags(cd.customer_tag)))
                   /\ UNCHANGED req
    /\ UNCHANGED <<clientify_enabled, session_partner_id, partners, orders, order_lines>>

\* lines 630-652: PATCH the order value read at the start of the request
ThreadValor(w) ==
    /\ threads[w].pc = "valor"
    /\ \E a \in {"ok", "status", "raise"} :
         LET id == threads[w].info.clientify_id
         IN /\ threads' = [threads EXCEPT ![w] =
                             [@ EXCEPT !.pc = "confirm",
                                       !.calls = @ \o <<"crm.PATCH.valor">>,
                                       !.info.valor = Present(threads[w].total),
                                       !.info.valor_answer = a]]
            /\ contacts' = IF a = "ok"
                           THEN [contacts EXCEPT ![id].valor = threads[w].total]
                           ELSE contacts
    /\ UNCHANGED <<clientify_enabled, session_partner_id, partners, orders,
                   order_lines, req>>

\* lines 654-662: action_confirm, then the redirect
ThreadConfirm(w) ==
    /\ threads[w].pc = "confirm"
    /\ \E a \in {"ok", "raise"} :
         LET t == [threads[w] EXCEPT !.calls = @ \o <<"erp.sale.order.action_confirm">>,
                                     !.info.action_confirm = a]
         IN /\ ThreadEnds(w, t, "redirect payment",
                          IF a = "ok" THEN {"success: pedido"}
                          ELSE {"error: transformar el presupuesto"})
            /\ orders' = IF a = "ok"
                         THEN [orders EXCEPT ![t.info.presupuesto_id].state = "sale"]
                         ELSE orders
    /\ UNCHANGED <<clientify_enabled, session_partner_id, partners, order_lines,
                   contacts>>

-----------------------------------------------------------------------------
(* Spec: the customer and order provisioning requests of one session, from   *)
(* an empty ERP.                                                             *)

Queries == { <<>>, <<"@">>, <<"z", "z", "z">> }
SaveForms ==
    { SaveForm(name, vat, email, tag) :
        name \in {<<>>, <<"A">>}, vat \in {<<>>, VatPT},
        email \in {EmailA, EmailB, BadEmail},
        tag \in {"mayorista", ""} }
OrderVats == { <<>>, VatPT, VatES, <<"E", "S", "X">> }

Init ==
    /\ clientify_enabled = TRUE
    /\ session_partner_id = NoId
    /\ partners = <<>>
    /\ orders = <<>>
    /\ order_lines = <<>>
    /\ contacts = <<>>
    /\ req = NoReq
    /\ threads = NoThreads

Next ==
    \/ Search(Queries)
    \/ Save(SaveForms)
    \/ CreatePresupuesto(OrderVats)

Spec == Init /\ [][Next]_vars

-----------------------------------------------------------------------------
(* SpecFiscal: one create_presupuesto request, for any vat parameter.        *)

VatChars == {"E", "S", "e", "P", "1", "X"}

InitFiscal ==
    /\ clientify_enabled = TRUE
    /\ session_partner_id \in {NoId, 1}
    /\ partners = <<Customer(VatPT, EmailA, "mayorista")>>
    /\ orders = <<>>
    /\ order_lines = <<>>
    /\ contacts = <<>>
    /\ req = NoReq
    /\ threads = NoThreads

NextFiscal == req = NoReq /\ CreatePresupuesto(SeqsUpTo(VatChars, MaxVatLen))

SpecFiscal == InitFiscal /\ [][NextFiscal]_vars

-----------------------------------------------------------------------------
(* SpecSave: one save request, for any tax ID, on an ERP with or without a   *)
(* customer of the submitted e-mail.                                         *)

SaveVatChars == {"P", "t", "1", " "}

InitSave ==
    /\ clientify_enabled = TRUE
    /\ session_partner_id = NoId
    /\ partners \in { <<>>, <<Customer(VatES, EmailA, "otros")>> }
    /\ orders = <<>>
    /\ order_lines = <<>>
    /\ contacts = <<>>
    /\ req = NoReq
    /\ threads = NoThreads

NextSave ==
    /\ req = NoReq
    /\ Save({ SaveForm(<<"A">>, vat, email, tag) :
                vat \in SeqsUpTo(SaveVatChars, MaxVatLen), email \in {EmailA, EmailB},
                tag \in {"mayorista", "laboratorio"} })

SpecSave == InitSave /\ [][NextSave]_vars

-----------------------------------------------------------------------------
(* SpecTags: any sequence of save requests, for any classification.          *)

SaveTags == { "mayorista", "laboratorio", "clinica_dental", "estudiante", "otros",
              "", "vip", " mayorista ", "Mayorista" }

NextTags ==
    Save({ SaveForm(<<"A">>, <<>>, email, tag) :
             email \in {EmailA, EmailB}, tag \in SaveTags })

SpecTags == Init /\ [][NextTags]_vars

-----------------------------------------------------------------------------
(* SpecOrder: the requests on one draft order of a saved customer.           *)

NoPriceFile == [exists |-> FALSE, table |-> <<>>]
PriceFile(table) == [exists |-> TRUE, table |-> table]

LineForm(product_code, has_qty, product_qty) ==
    [product_code |-> product_code, has_qty |-> has_qty, product_qty |-> product_qty]

OrderLineForms ==
    { LineForm(<<>>, FALSE, <<>>), LineForm(<<"P", "1">>, FALSE, <<>>),
      LineForm(<<"P", "1">>, TRUE, <<"x">>), LineForm(<<"z">>, FALSE, <<>>) }

InitOrder ==
    /\ clientify_enabled \in BOOLEAN
    /\ session_partner_id = 1
    /\ partners = <<Customer(VatPT, EmailA, "mayorista")>>
    /\ orders = <<NewOrder(1, FISCAL_DOMESTIC)>>
    /\ order_lines = <<>>
    /\ contacts = <<>>
    /\ req = NoReq
    /\ threads = NoThreads

NextOrder ==
    \/ PresupuestoDetails({"GET", "POST"}, OrderLineForms,
                          {PriceFile(<< [key |-> <<"P", "1">>, price |-> 3] >>)})
    \/ DeleteProduct
    \/ ConfirmPresupuesto

SpecOrder == InitOrder /\ [][NextOrder]_vars

-----------------------------------------------------------------------------
(* SpecLine: one add-line request, for any product code, quantity and price  *)
(* override table.                                                           *)

CodeChars == {"P", "p", "1", " "}
TableKeys == { <<"p", "1">>, <<"P", "1">>, <<"p">> }
TablePrices == {0, 9}
QtyTexts == { <<"3">>, <<"0">>, <<"-", "1">>, <<"x">> }

\* the tables of a JSON object: entries with distinct keys, in the file's order
PriceTables ==
    { t \in SeqsUpTo([key : TableKeys, price : TablePrices], MaxTable) :
        \A i, j \in DOMAIN t : i # j => t[i].key # t[j].key }

LineForms ==
    { LineForm(code, TRUE, qty) : code \in SeqsUpTo(CodeChars, MaxCodeLen),
                                  qty \in QtyTexts }
    \cup { LineForm(code, FALSE, <<>>) : code \in SeqsUpTo(CodeChars, MaxCodeLen) }

InitLine ==
    /\ clientify_enabled = TRUE
    /\ session_partner_id = 1
    /\ partners = <<Customer(VatPT, EmailA, "mayorista")>>
    /\ orders = <<NewOrder(1, FISCAL_DOMESTIC)>>
    /\ order_lines = <<>>
    /\ contacts = <<>>
    /\ req = NoReq
    /\ threads = NoThreads

NextLine ==
    /\ req = NoReq
    /\ PresupuestoDetails({"POST"}, LineForms,
                          {NoPriceFile} \cup {PriceFile(t) : t \in PriceTables})

SpecLine == InitLine /\ [][NextLine]_vars

\* what one run of the reconciler saw, sent and returned
RunInfo(cs, out) ==
    [matched |-> out.matched,
     existing_tags |-> IF out.matched = NoId THEN <<>> ELSE cs[out.matched].tags,
     calls |-> out.calls, answers |-> out.answers, tag |-> out.tag, id |-> out.id,
     patch_tags |-> out.patch_tags, post_tags |-> out.post_tags]

\* two calls of create_or_update_client_in_clientify in sequence with the
\* same client_data: the second runs against the CRM as the first left it
CallReconcileTwice(emails, tipos) ==
    \E email \in emails, tipo \in tipos :
      LET cd == [email |-> email, customer_tag |-> tipo]
      IN \E one \in Reconcile(clientify_enabled, contacts, cd) :
           \E two \in Reconcile(clientify_enabled, one.contacts, cd) :
             /\ contacts' = two.contacts
             /\ req' = Served("create_or_update_client_in_clientify twice",
                              one.calls \o two.calls,
                              IF one.raised \/ two.raised THEN "unhandled"
                              ELSE "response", {},
                              [client_data |-> cd, before |-> contacts,
                               between |-> one.contacts,
                               first |-> RunInfo(contacts, one),
                               second |-> RunInfo(one.contacts, two)])
             /\ UNCHANGED <<threads, clientify_enabled, session_partner_id, partners,
                            orders, order_lines>>

-----------------------------------------------------------------------------
(* SpecCRM: one CRM synchronisation, a call of the reconciler or a confirm   *)
(* request, on a CRM holding any one contact.                                *)

CrmEmails == {EmailA, EmailAUpper, EmailB}
CrmTags == {"laboratorio", "mayorista", EVENT_MARKER, "vip"}
CrmTipos == {"mayorista", "laboratorio", "otros", "vip", "", None}

InitCRM ==
    /\ clientify_enabled \in BOOLEAN
    /\ session_partner_id = 1
    /\ partners = <<Customer(VatPT, EmailA, "mayorista")>>
    /\ orders = <<NewOrder(1, FISCAL_DOMESTIC)>>
    /\ order_lines = <<>>
    /\ contacts \in {<<>>} \cup
           { <<NewContact(e, t)>> : e \in CrmEmails, t \in SeqsUpTo(CrmTags, MaxTags) }
    /\ req = NoReq
    /\ threads = NoThreads

NextCRM ==
    /\ req = NoReq
    /\ \/ CallReconcile(CrmEmails, CrmTipos)
       \/ ConfirmPresupuesto

SpecCRM == InitCRM /\ [][NextCRM]_vars

-----------------------------------------------------------------------------
(* SpecUpsert: the reconciler called twice with one payload, on a CRM        *)
(* holding any one contact.                                                  *)

NextUpsert == req = NoReq /\ CallReconcileTwice(CrmEmails, CrmTipos)

SpecUpsert == InitCRM /\ [][NextUpsert]_vars

-----------------------------------------------------------------------------
(* SpecRound: a customer saved, and saved again, with any classification,    *)
(* then an order for the customer of the session, and its confirmation.      *)

NextRound ==
    \/ orders = <<>> /\ Save({ SaveForm(<<"A">>, VatPT, EmailA, tag) : tag \in SaveTags })
    \/ orders = <<>> /\ CreatePresupuesto({VatPT})
    \/ ConfirmPresupuesto

SpecRound == Init /\ [][NextRound]_vars

-----------------------------------------------------------------------------
(* SpecEmail: send_email requests on one order.                              *)

EmailForm(note, paymentType) == [note |-> note, paymentType |-> paymentType]

EmailForms ==
    { EmailForm(note, pt) : note \in { <<>>, <<" ">>, <<"a">>, <<"<", "b">> },
                            pt \in {"cash", "card", ""} }

NextEmail == SendEmail(EmailForms)

SpecEmail == InitLine /\ [][NextEmail]_vars

-----------------------------------------------------------------------------
(* SpecValidate: one request of a handler that validates its input, for      *)
(* valid and invalid inputs.                                                 *)

NextValidate ==
    /\ req = NoReq
    /\ \/ Search(Queries)
       \/ Save(SaveForms)
       \/ CreatePresupuesto(OrderVats)
       \/ PresupuestoDetails({"POST"}, LineForms, {NoPriceFile})

SpecValidate == InitLine /\ [][NextValidate]_vars

-----------------------------------------------------------------------------
(* SpecRemove: add-line and remove-line requests on one draft order.         *)

NextRemove ==
    \/ PresupuestoDetails({"GET", "POST"}, OrderLineForms, {NoPriceFile})
    \/ DeleteProduct

SpecRemove == InitLine /\ [][NextRemove]_vars

-----------------------------------------------------------------------------
(* SpecConfirm: one confirm request on an order with or without a line, on a *)
(* CRM with or without the customer's contact.                               *)

InitConfirm ==
    /\ clientify_enabled \in BOOLEAN
    /\ session_partner_id = 1
    /\ partners = <<Customer(VatPT, EmailA, "mayorista")>>
    /\ orders = <<NewOrder(1, FISCAL_DOMESTIC)>>
    /\ order_lines \in {<<>>} \cup
           { <<NewLine(1, 1, qty, price)>> : qty \in 1..2,
                                            price \in {Absent, Present(3)} }
    /\ contacts \in { <<>>, <<NewContact(EmailA, <<"vip">>)>>,
                      <<NewContact(EmailB, <<>>)>> }
    /\ req = NoReq
    /\ threads = NoThreads

NextConfirm == req = NoReq /\ ConfirmPresupuesto

SpecConfirm == InitConfirm /\ [][NextConfirm]_vars

-----------------------------------------------------------------------------
(* SpecRace: confirm requests served concurrently, on a CRM that does not    *)
(* yet hold the customer's contact.                                          *)

InitRace ==
    /\ clientify_enabled = TRUE
    /\ session_partner_id = 1
    /\ partners = <<Customer(VatPT, EmailA, "mayorista")>>
    /\ orders = <<NewOrder(1, FISCAL_DOMESTIC)>>
    /\ order_lines = <<NewLine(1, 1, 2, Present(3))>>
    /\ contacts = <<>>
    /\ req = NoReq
    /\ threads = NoThreads

NextRace ==
    \E w \in Workers :
      \/ ThreadBegin(w)
      \/ ThreadGet(w)
      \/ ThreadPatch(w)
      \/ ThreadPost(w)
      \/ ThreadValor(w)
      \/ ThreadConfirm(w)

SpecRace == InitRace /\ [][NextRace]_vars

-----------------------------------------------------------------------------
(* SpecLookup: any sequence of save requests, for tax IDs and e-mails that   *)
(* match the ERP's customers by either, both or none.                        *)

LookupForms ==
    { SaveForm(<<"A">>, vat, email, "otros") :
        vat \in {<<>>, VatPT, VatES}, email \in {<<>>, EmailA, EmailB} }

NextLookup == Save(LookupForms)

SpecLookup == Init /\ [][NextLookup]_vars

-----------------------------------------------------------------------------
(* SpecAll: one request of any handler, on an ERP with a customer, with or   *)
(* without an order and a line, and a CRM with or without the customer's     *)
(* contact.                                                                  *)

InitAll ==
    /\ clientify_enabled \in BOOLEAN
    /\ session_partner_id \in {NoId, 1}
    /\ partners = <<Customer(VatPT, EmailA, "mayorista")>>
    /\ \E o \in {<<>>, <<NewOrder(1, FISCAL_DOMESTIC)>>} :
         /\ orders = o
         /\ order_lines \in {<<>>} \cup
                (IF o = <<>> THEN {} ELSE { <<NewLine(1, 1, 2, Present(3))>> })
    /\ contacts \in { <<>>, <<NewContact(EmailA, <<"vip">>)>> }
    /\ req = NoReq
    /\ threads = NoThreads

NextAll ==
    /\ req = NoReq
    /\ \/ Search(Queries)
       \/ Save(SaveForms)
       \/ CreatePresupuesto(OrderVats)
       \/ PresupuestoDetails({"GET", "POST"}, OrderLineForms, {NoPriceFile})
       \/ DeleteProduct
       \/ ConfirmPresupuesto
       \/ SendEmail(EmailForms)
       \/ SendEmailPresupuesto
       \/ Payment

SpecAll == InitAll /\ [][NextAll]_vars

-----------------------------------------------------------------------------
(* Claims *)

Classifications == {"mayorista", "laboratorio", "clinica_dental", "estudiante", "otros"}

CrmCalls == {"crm.GET", "crm.PATCH.contact", "crm.POST", "crm.PATCH.valor"}

\* how often a call occurs among the calls of the request
Count(calls, c) == Cardinality({i \in DOMAIN calls : calls[i] = c})

\* the largest element of a non-empty set of integers
Max(S) == CHOOSE x \in S : \A y \in S : y <= x

\* a confirm request reached its CRM step and a CRM call of it failed: a
\* non-2xx answer or an exception, in the reconciler or in the order-value PATCH
CrmSyncFailed ==
    /\ req.handler = "confirm_presupuesto"
    /\ req.info.crm_step
    /\ \/ In("status", req.info.crm_answers)
       \/ In("raise", req.info.crm_answers)
       \/ req.info.valor_answer \in {"status", "raise"}

\* C1: in confirm_presupuesto, however the CRM sync step fails (search, PATCH
\* or POST answering non-2xx, or the transport raising in any of them), the
\* ERP action_confirm is still attempted in the same request, and success is
\* reported if it succeeds.
C1_ConfirmDespiteCrmFailure ==
    CrmSyncFailed =>
        /\ In("erp.sale.order.action_confirm", req.calls)
        /\ req.info.action_confirm = "ok" => "success: pedido" \in req.flash

\* C2: in create_presupuesto, for a vat of a non-domestic country code, every
\* failure of the VAT validation collaborator (constructing the client as well
\* as checkVat) gives the domestic fiscal position, a flashed warning and a
\* request that goes on to the order creation, never an unhandled fault.
C2_VatFailureFallsBack ==
    (req.handler = "create_presupuesto" /\ req.info.vies \in {"client_raise", "raise"})
    =>  /\ req.info.fiscal_position_id = FISCAL_DOMESTIC
        /\ "warning: Error al consultar VAT" \in req.flash
        /\ In("erp.authenticate", req.calls)

\* the lines of an order
LinesOf(lines, o) == {l \in DOMAIN lines : lines[l].exists /\ lines[l].order_id = o}

\* C3: once an order is confirmed, no request of the workflow creates or
\* deletes a line of it, and none moves it back to draft.
C3_ConfirmedIsTerminal ==
    [][\A o \in DOMAIN orders :
         orders[o].state = "sale" =>
            /\ orders'[o].state = "sale"
            /\ LinesOf(order_lines', o) = LinesOf(order_lines, o)]_vars


\* the reconciler was called, found an exact match and returned
ReturnedMatched ==
    /\ req.handler = "create_or_update_client_in_clientify"
    /\ req.outcome = "response"
    /\ req.info.matched # NoId

\* the positions of the classification tags in a tag list
ClassPositions(tags) == {i \in DOMAIN tags : tags[i] \in Classifications}

\* C4 as stated: for a matched contact with a classification tag among its
\* existing tags, the returned recognized tag is the first such existing tag,
\* unless the request's classification is a recognized one different from it,
\* and then it is the request's classification.
C4_Original ==
    (ReturnedMatched /\ ClassPositions(req.info.existing_tags) # {}) =>
        LET ex == req.info.existing_tags
            first == ex[Min(ClassPositions(ex))]
            tipo == req.info.client_data.customer_tag
        IN req.info.tag = IF tipo \in Classifications /\ tipo # first THEN tipo ELSE first

\* C4 amended: for a matched contact with a classification tag among its
\* existing tags, the returned recognized tag is the request's classification
\* if that is a recognized one not yet among the existing tags, and the first
\* existing classification tag in every other case.
C4_Amended ==
    (ReturnedMatched /\ ClassPositions(req.info.existing_tags) # {}) =>
        LET ex == req.info.existing_tags
            first == ex[Min(ClassPositions(ex))]
            tipo == req.info.client_data.customer_tag
        IN req.info.tag = IF tipo \in Classifications /\ ~In(tipo, ex) THEN tipo ELSE first

\* existing ["laboratorio"], request "mayorista": "mayorista" is returned
C4_Witness ==
    /\ ReturnedMatched
    /\ req.info.existing_tags = <<"laboratorio">>
    /\ req.info.client_data.customer_tag = "mayorista"
    /\ req.info.tag = "mayorista"

\* C5: with the CRM flag disabled the reconciler issues no CRM call and
\* returns (None, None), and a confirm request issues no CRM call at all and
\* still attempts action_confirm once it has read the order and its customer.
C5_DisabledMeansNoCrmCall ==
    ~clientify_enabled =>
        /\ \A i \in DOMAIN req.calls : req.calls[i] \notin CrmCalls
        /\ req.handler = "create_or_update_client_in_clientify" =>
              req.info.tag = None /\ req.info.id = NoId
        /\ (req.handler = "confirm_presupuesto"
              /\ In("erp.sale.order.write", req.calls)) =>
              In("erp.sale.order.action_confirm", req.calls)

\* flag disabled: a confirm request confirmed the order
C5_Witness ==
    /\ ~clientify_enabled
    /\ req.handler = "confirm_presupuesto"
    /\ req.info.action_confirm = "ok"
    /\ orders[req.info.presupuesto_id].state = "sale"

\* C6: no sale.order create is issued with an absent partner_id.
C6_OrderHasCustomer ==
    (req.handler = "create_presupuesto" /\ req.info.create_issued) =>
        req.info.partner_id # NoId

\* the upper-cased two-letter country code of the vat is the domestic one
DomesticCode(vat) ==
    /\ Len(vat) >= 2
    /\ UpperChar(vat[1]) = "E"
    /\ UpperChar(vat[2]) = "S"

\* C7: the order values carry the intracommunity fiscal position (4) iff the
\* country code is not ES and the VAT service answered valid, and the domestic
\* one (1) in every other case; the service is never called for a domestic
\* code and exactly once for any other.  Stated of every request that got as
\* far as the ERP.
C7_FiscalPosition ==
    (req.handler = "create_presupuesto" /\ In("erp.authenticate", req.calls)) =>
        LET vat == req.info.vat
            intracom == ~DomesticCode(vat) /\ req.info.vies = "valid"
        IN /\ req.info.fiscal_position_id =
                 IF intracom THEN FISCAL_INTRACOM ELSE FISCAL_DOMESTIC
           /\ req.info.presupuesto_id # NoId =>
                 orders[req.info.presupuesto_id].fiscal_position_id =
                     IF intracom THEN FISCAL_INTRACOM ELSE FISCAL_DOMESTIC
           /\ Count(req.calls, "vies.checkVat") = IF DomesticCode(vat) THEN 0 ELSE 1

\* an order was created with the intracommunity fiscal position
C7_Witness ==
    /\ req.handler = "create_presupuesto"
    /\ req.info.presupuesto_id # NoId
    /\ req.info.vies = "valid"
    /\ orders[req.info.presupuesto_id].fiscal_position_id = FISCAL_INTRACOM

\* the tax ID the rule of the spec persists: the trimmed value if it has at
\* least 4 characters and its first two are letters, absent otherwise
PersistedTaxId(submitted) ==
    LET v == Strip(submitted)
    IN IF Len(v) >= 4 /\ v[1] \in Letters /\ v[2] \in Letters THEN Present(v)
       ELSE Absent

\* C8: on the create path and on the update path, save writes the trimmed tax
\* ID unchanged if it has at least 4 characters and starts with two letters,
\* and writes it as absent in every other case ("PT123456" unchanged, "12345"
\* absent).
C8_TaxIdWriteRule ==
    /\ VatToWrite(<<"P", "T", "1", "2", "3", "4", "5", "6">>)
           = Present(<<"P", "T", "1", "2", "3", "4", "5", "6">>)
    /\ VatToWrite(<<"1", "2", "3", "4", "5">>) = Absent
    /\ (req.handler = "save" /\ req.info.path \in {"create", "update"}) =>
          /\ req.info.vals.vat = PersistedTaxId(req.info.form.vat)
          /\ req.outcome = "redirect create_presupuesto" =>
                \A k \in DOMAIN req.info.ids :
                    partners[req.info.ids[k]].vat = PersistedTaxId(req.info.form.vat)

\* the update path wrote a tax ID
C8_Witness ==
    /\ req.handler = "save"
    /\ req.info.path = "update"
    /\ req.outcome = "redirect create_presupuesto"
    /\ partners[1].vat = Present(<<"P", "t", "1", "1">>)

\* C9: every customer record written by save has the mayorista price list iff
\* its classification tag is mayorista, and the default price list for every
\* other classification, unknown and empty ones (classified otros) included.
C9_PricelistFollowsTag ==
    /\ \A i \in DOMAIN partners :
          partners[i].property_product_pricelist =
              IF partners[i].category_id[1] = TAG_MAYORISTA_ID
              THEN PRICELIST_MAYORISTA_ID ELSE PRICELIST_DEFAULT_ID
    /\ (req.handler = "save" /\ req.info.path \in {"create", "update"}) =>
          LET c == StripTag(req.info.form.customer_tag)
          IN /\ req.info.vals.property_product_pricelist =
                   IF c = "mayorista" THEN PRICELIST_MAYORISTA_ID
                   ELSE PRICELIST_DEFAULT_ID
             /\ c \notin Classifications =>
                   req.info.vals.category_id[1] = TAG_OTROS_ID
             /\ req.info.vals.category_id[1] = TAG_MAYORISTA_ID <=> c = "mayorista"

\* a mayorista customer was reclassified, beside a customer of another class
C9_Witness ==
    /\ req.handler = "save"
    /\ req.info.path = "update"
    /\ Len(partners) = 2
    /\ partners[1].property_product_pricelist = PRICELIST_MAYORISTA_ID
    /\ partners[2].property_product_pricelist = PRICELIST_DEFAULT_ID

\* an add-line request sent a line to the ERP
LineSent ==
    /\ req.handler = "presupuesto_details"
    /\ In("erp.sale.order.line.create", req.calls)

\* the entries of the table whose lower-cased key is the lower-cased code
Overrides(table, code) ==
    {i \in DOMAIN table : Lower(table[i].key) = Lower(Strip(code))}

\* C10: the line an add-line request creates carries the override of the
\* lower-cased product code as its unit price if the table, with its keys
\* lower-cased, has that code (the last such entry of the file), and no unit
\* price if it has not or the file is missing; it carries the submitted
\* quantity.
C10_LineOverride ==
    LineSent =>
        LET file == req.info.price_file
            hits == Overrides(file.table, req.info.form.product_code)
            vals == req.info.vals
        IN /\ vals.price_unit =
                 IF file.exists /\ hits # {} THEN Present(file.table[Max(hits)].price)
                 ELSE Absent
           /\ req.info.form.has_qty =>
                 vals.product_uom_qty = IntOf(req.info.form.product_qty)
           /\ req.info.created # NoId => order_lines[req.info.created] = vals

\* table {"p1": 9}, code "P1", quantity 3: a line of unit price 9, quantity 3
C10_Witness ==
    /\ LineSent
    /\ req.info.price_file = PriceFile(<< [key |-> <<"p", "1">>, price |-> 9] >>)
    /\ req.info.form.product_code = <<"P", "1">>
    /\ req.info.created # NoId
    /\ order_lines[req.info.created].price_unit = Present(9)
    /\ order_lines[req.info.created].product_uom_qty = 3

\* C11: in send_email a failure of the message-post step does not prevent the
\* field write and the email send from being attempted, and an email step that
\* was not attempted after an attempted field write means that write failed.
C11_StepsIndependent ==
    req.handler = "send_email" =>
      /\ req.info.message_post = "raise" =>
           /\ req.info.write # "none"
           /\ req.info.write = "ok" => req.info.send_mail # "none"
      /\ (req.info.write # "none" /\ req.info.send_mail = "none") =>
           req.info.write \in {"fault", "raise"}

\* the request's input fails the validation of its handler
ValidationFails ==
    CASE req.handler = "search" -> Strip(req.info.query) = <<>>
      [] req.handler = "save" ->
           \/ Strip(req.info.form.name) = <<>>
           \/ /\ Strip(req.info.form.email) # <<>>
              /\ ~validate_email(Strip(req.info.form.email))
      [] req.handler = "create_presupuesto" -> Len(req.info.vat) < 3
      [] req.handler = "presupuesto_details" ->
           /\ req.info.method = "POST"
           /\ \/ Strip(req.info.form.product_code) = <<>>
              \/ /\ req.info.form.has_qty
                 /\ \/ ~IsIntText(req.info.form.product_qty)
                    \/ IntOf(req.info.form.product_qty) <= 0
      [] OTHER -> FALSE

\* C12: a request whose input fails validation (empty search query, missing
\* name or malformed email in save, VAT shorter than 3 characters, empty
\* product code or invalid quantity on add-line) issues no remote call.
C12_RejectedBeforeRemoteCalls == ValidationFails => req.calls = <<>>

\* the request was a delete_product whose lookup of the owning order failed
OwnerLookupFails(r) ==
    /\ r.handler = "delete_product"
    /\ In("erp.sale.order.line.read", r.calls)
    /\ r.info.presupuesto_id = NoId

\* C13: when delete_product's lookup of the line's owning order fails the
\* request ends with a generic error, issues no unlink and leaves the ERP's
\* lines unchanged; an unlink is issued only after the owning order was
\* resolved by that lookup.
C13_NoUnlinkWithoutOwner ==
    [][ /\ OwnerLookupFails(req') =>
             /\ req'.outcome = "redirect index"
             /\ req'.flash = {"error: detalles del producto"}
             /\ ~In("erp.sale.order.line.unlink", req'.calls)
             /\ order_lines' = order_lines
        /\ (req'.handler = "delete_product"
            /\ In("erp.sale.order.line.unlink", req'.calls)) =>
             /\ LineExists(order_lines, req'.info.line_id)
             /\ req'.info.presupuesto_id = order_lines[req'.info.line_id].order_id
             /\ req'.calls = <<"erp.authenticate", "erp.sale.order.line.read",
                               "erp.sale.order.line.unlink">>
      ]_vars

\* the lookup failed for a line that exists, and the line is still there
C13_Witness ==
    /\ OwnerLookupFails(req)
    /\ LineExists(order_lines, req.info.line_id)

\* the submitted quantity is a positive integer
QtyUsable(form) ==
    /\ form.has_qty
    /\ IsIntText(form.product_qty)
    /\ IntOf(form.product_qty) > 0

\* C14: every line an add-line request sends and creates has a positive
\* quantity; when the submitted quantity is absent or invalid (non-numeric,
\* zero or negative) the quantity 1 is used and the request does not fail on
\* the quantity.
C14_QuantityPositive ==
    (req.handler = "presupuesto_details" /\ req.info.method = "POST") =>
      /\ req.outcome # "unhandled ValueError"
      /\ LineSent =>
           /\ req.info.vals.product_uom_qty > 0
           /\ ~QtyUsable(req.info.form) => req.info.vals.product_uom_qty = 1
      /\ req.info.created # NoId =>
           order_lines[req.info.created].product_uom_qty > 0

\* the positions of a call in the calls of a request
Positions(calls, c) == {i \in DOMAIN calls : calls[i] = c}

\* C15: in one confirm_presupuesto request every CRM call is issued before
\* the ERP action_confirm call, which is the last remote call of the request;
\* the order-value PATCH is issued only after the reconciliation returned a
\* contact id, and carries the order's amount_total.
C15_CrmBeforeConfirm ==
    req.handler = "confirm_presupuesto" =>
      LET calls == req.calls
          confirms == Positions(calls, "erp.sale.order.action_confirm")
          valors == Positions(calls, "crm.PATCH.valor")
      IN /\ \A i \in DOMAIN calls, j \in confirms : calls[i] \in CrmCalls => i < j
         /\ confirms \subseteq {Len(calls)}
         /\ valors # {} =>
              /\ req.info.clientify_id # NoId
              /\ req.info.clientify_id \in 1..Len(contacts)
              /\ \E g \in Positions(calls, "crm.GET") : \A v \in valors : g < v
              /\ \A i \in DOMAIN calls, v \in valors :
                   calls[i] \in {"crm.PATCH.contact", "crm.POST"} => i < v
              /\ req.info.valor =
                   Present(AmountTotal(order_lines, req.info.presupuesto_id))
              /\ req.info.valor_answer = "ok" =>
                   contacts[req.info.clientify_id].valor =
                     AmountTotal(order_lines, req.info.presupuesto_id)
         /\ (valors = {} /\ req.info.action_confirm # "none" /\ req.info.crm_step) =>
              req.info.clientify_id = NoId

\* a confirm that sent a non-zero order value to the CRM and then confirmed
C15_Witness ==
    /\ req.handler = "confirm_presupuesto"
    /\ In("crm.PATCH.valor", req.calls)
    /\ req.info.valor \in {Present(3), Present(6)}
    /\ req.info.action_confirm = "ok"
    /\ orders[req.info.presupuesto_id].state = "sale"

\* a call of the reconciler that matched a contact and sent its PATCH
PatchSent ==
    /\ req.handler = "create_or_update_client_in_clientify"
    /\ req.info.matched # NoId
    /\ In("crm.PATCH.contact", req.calls)

\* C16: the tag list in the PATCH of a matched contact is the existing tags
\* unchanged and in order, then the event marker if it was absent, then the
\* supplied classification if it is one of the five recognized values and was
\* absent; a PATCH answered with a failure status is swallowed: the resolved
\* tag and the contact id are still returned.
C16_TagMerge ==
    PatchSent =>
      LET existing == req.info.existing_tags
          tipo == req.info.client_data.customer_tag
          sent == req.info.patch_tags
          marker == IF In(EVENT_MARKER, existing) THEN <<>> ELSE <<EVENT_MARKER>>
          class == IF tipo \in Classifications /\ ~In(tipo, existing)
                   THEN <<tipo>> ELSE <<>>
      IN /\ sent = existing \o marker \o class
         /\ \A t \in {sent[i] : i \in DOMAIN sent} :
              Count(sent, t) = IF In(t, existing) THEN Count(existing, t) ELSE 1
         /\ req.info.answers = <<"ok", "ok">> =>
              contacts[req.info.matched].tags = sent
         /\ req.info.answers = <<"ok", "status">> =>
              /\ req.outcome = "response"
              /\ req.info.id = req.info.matched
              /\ req.info.tag = IF class # <<>> THEN tipo
                                ELSE IF \E i \in DOMAIN existing :
                                          existing[i] \in Classifications
                                     THEN existing[Min({i \in DOMAIN existing :
                                            existing[i] \in Classifications})]
                                     ELSE None
              /\ contacts[req.info.matched].tags = existing

\* existing ["vip"], classification mayorista, PATCH answered with an error
C16_Witness ==
    /\ PatchSent
    /\ req.info.existing_tags = <<"vip">>
    /\ req.info.patch_tags = <<"vip", EVENT_MARKER, "mayorista">>
    /\ req.info.answers = <<"ok", "status">>
    /\ req.info.tag = "mayorista"

\* thread w created the contact j
CreatedBy(w, j) ==
    /\ In("crm.POST", threads[w].calls)
    /\ threads[w].info.clientify_id = j
    /\ j \in 1..Len(contacts)

\* contacts i and j carry the same e-mail
SameEmail(i, j) == i # j /\ Lower(contacts[i].email) = Lower(contacts[j].email)

\* C17: no lock is held across the search and the create of the reconciler.
\* A request creates a contact whose e-mail another contact carries only when
\* its own search could not see that contact (the search preceded the other's
\* create, or was not answered with status 200); two concurrent confirm
\* requests whose searches both saw no match both create: two contacts with
\* the same e-mail.
C17_DuplicateNeedsStaleSearch ==
    \A w \in Workers :
      \A j \in 1..Len(contacts) :
        CreatedBy(w, j) =>
          /\ threads[w].matched = NoId
          /\ \A i \in 1..Len(contacts) :
               SameEmail(i, j) => \/ threads[w].got = "status"
                                  \/ i > Len(threads[w].seen)

\* two threads, each search answered 200 with no match, each created a
\* contact: the CRM holds two contacts with the same e-mail
C17_Witness ==
    /\ \A w \in Workers : w <= 2 =>
         /\ threads[w].got = "ok"
         /\ threads[w].seen = <<>>
         /\ threads[w].matched = NoId
         /\ CreatedBy(w, threads[w].info.clientify_id)
    /\ threads[1].info.clientify_id # threads[2].info.clientify_id
    /\ SameEmail(threads[1].info.clientify_id, threads[2].info.clientify_id)
    /\ Len(contacts) = 2

\* the customers whose tax ID or whose e-mail is the one submitted
Matching(ps, form) ==
    { i \in 1..Len(ps) :
        \/ ps[i].vat # Absent /\ ps[i].vat[1] = Strip(form.vat)
        \/ ps[i].email = Strip(form.email) }

\* C18: save's customer lookup matches on tax ID OR e-mail; save issues a
\* res.partner write if and only if the lookup matched a customer and a
\* res.partner create otherwise, never both, and one of the two in every
\* request that authenticated and did not end in a fault of a lookup.
C18_UpdateIffFound ==
    [][ req'.handler = "save" =>
          LET found == Matching(partners, req'.info.form)
              writes == In("erp.res.partner.write", req'.calls)
              creates == In("erp.res.partner.create", req'.calls)
          IN /\ writes => found # {}
             /\ creates => found = {}
             /\ ~(writes /\ creates)
             /\ (In("erp.res.partner.search", req'.calls)
                  /\ req'.outcome # "unhandled") => (writes \/ creates)
             /\ writes => {req'.info.ids[k] : k \in DOMAIN req'.info.ids} = found
      ]_vars

\* a save whose tax ID is the one of customer 1 and whose e-mail is the one of
\* customer 2: the lookup matched both, and save wrote
C18_Witness ==
    /\ req.handler = "save"
    /\ req.info.path = "update"
    /\ req.info.ids = <<1, 2>>
    /\ req.info.form.vat = VatPT
    /\ req.info.form.email = EmailB
    /\ In("erp.res.partner.write", req.calls)

\* a call of the reconciler whose search returned no contact with the
\* request's e-mail, whatever the case of its letters
NoExactMatch ==
    /\ req.handler = "create_or_update_client_in_clientify"
    /\ In("crm.GET", req.calls)
    /\ req.info.answers[1] # "raise"
    /\ req.info.matched = NoId

\* C19: when no search result has the request's e-mail (case-insensitively),
\* exactly one contact POST is issued, with the tags [umbrella tag,
\* date-qualified tag] and the classification in front if it is one of the
\* five recognized values; the function returns the new contact's id on a
\* 200/201 answer and (None, None) on any other answer; no PATCH is issued.
C19_CreatePath ==
    NoExactMatch =>
      LET tipo == req.info.client_data.customer_tag
          tags == (IF tipo \in Classifications THEN <<tipo>> ELSE <<>>)
                  \o <<TAG_NAME, EVENT_MARKER>>
      IN /\ req.calls = <<"crm.GET", "crm.POST">>
         /\ req.info.post_tags = tags
         /\ req.info.patch_tags = <<>>
         /\ req.info.answers[2] = "ok" =>
              /\ req.info.id = Len(contacts)
              /\ contacts[req.info.id] = NewContact(req.info.client_data.email, tags)
              /\ req.info.tag = IF tipo \in Classifications THEN tipo ELSE None
         /\ req.info.answers[2] = "status" =>
              /\ req.info.id = NoId
              /\ req.info.tag = None
              /\ req.outcome = "response"

\* the CRM holds a contact of another e-mail; a laboratorio contact is created
C19_Witness ==
    /\ NoExactMatch
    /\ req.info.client_data = [email |-> EmailB, customer_tag |-> "laboratorio"]
    /\ req.info.answers = <<"ok", "ok">>
    /\ Len(contacts) = 2
    /\ contacts[1].email = EmailA
    /\ contacts[2].tags = <<"laboratorio", TAG_NAME, EVENT_MARKER>>

\* the ERP tag of a submitted classification: otros when it is none of the five
ClassificationTag(submitted) ==
    LET c == StripTag(submitted)
    IN CASE c = "mayorista" -> TAG_MAYORISTA_ID
         [] c = "clinica_dental" -> TAG_CLINICA_DENTAL_ID
         [] c = "laboratorio" -> TAG_LABORATORIO_ID
         [] c = "estudiante" -> TAG_ESTUDIANTE_ID
         [] OTHER -> TAG_OTROS_ID

\* the customers a served save request created or updated
Saved(r) ==
    IF r.handler = "save" /\ r.outcome # "unhandled"
    THEN {r.info.ids[k] : k \in DOMAIN r.info.ids} ELSE {}

\* C20: every customer a save creates or updates has, after the save, exactly
\* the tags [classification tag] + mandatory tags, the classification tag being
\* otros when the submitted classification is unknown or empty: the previous
\* tags are replaced; the customers the save did not touch keep theirs.
C20_TagsReplaced ==
    [][ /\ \A i \in Saved(req') :
             /\ i \in 1..Len(partners')
             /\ partners'[i].category_id =
                  <<ClassificationTag(req'.info.form.customer_tag)>>
                  \o MANDATORY_TAG_IDS
        /\ \A i \in 1..Len(partners) :
             i \notin Saved(req') => partners'[i] = partners[i]
        /\ Len(partners') > Len(partners) =>
             /\ Len(partners') = Len(partners) + 1
             /\ Len(partners') \in Saved(req')
      ]_vars

\* customer 1 was updated with the unknown classification "vip" and carries
\* otros and the mandatory tags; customer 2, a mayorista, was not touched
C20_Witness ==
    /\ req.handler = "save"
    /\ req.info.path = "update"
    /\ req.info.form.customer_tag = "vip"
    /\ Saved(req) = {1}
    /\ Len(partners) = 2
    /\ partners[1].category_id = <<TAG_OTROS_ID>> \o MANDATORY_TAG_IDS
    /\ partners[2].category_id = <<TAG_MAYORISTA_ID>> \o MANDATORY_TAG_IDS

\* the remote calls that write: ERP create, write, unlink, action_confirm,
\* message_post and send_mail; CRM POST and PATCH, per purpose
RemoteWrites ==
    { "erp.res.partner.create", "erp.res.partner.write", "erp.sale.order.create",
      "erp.sale.order.write", "erp.sale.order.line.create",
      "erp.sale.order.line.unlink", "erp.sale.order.action_confirm",
      "erp.sale.order.message_post", "erp.mail.template.send_mail",
      "crm.POST", "crm.PATCH.contact", "crm.PATCH.valor" }

\* C21: within one request each remote write is issued at most once, also
\* after it failed; a failed action_confirm is surfaced to the user, is the
\* last call of the request and leaves the order unconfirmed.
C21_NothingRetried ==
    /\ \A c \in RemoteWrites : Count(req.calls, c) <= 1
    /\ (req.handler = "confirm_presupuesto" /\ req.info.action_confirm = "raise") =>
         /\ "error: transformar el presupuesto" \in req.flash
         /\ "success: pedido" \notin req.flash
         /\ req.outcome = "redirect payment"
         /\ req.calls[Len(req.calls)] = "erp.sale.order.action_confirm"
         /\ orders[req.info.presupuesto_id].state = "draft"

\* a confirm that synchronised the CRM and whose action_confirm failed
C21_Witness ==
    /\ req.handler = "confirm_presupuesto"
    /\ req.info.action_confirm = "raise"
    /\ In("crm.PATCH.contact", req.calls)
    /\ In("crm.PATCH.valor", req.calls)
    /\ In("erp.sale.order.write", req.calls)

\* the request ended because authenticate returned no uid
NoSession(r) ==
    /\ r # NoReq
    /\ r.calls # <<>>
    /\ r.calls[Len(r.calls)] = "erp.authenticate"
    /\ r.outcome \notin {"unhandled", "unhandled ValueError"}

\* C22: in every handler, when the ERP session is not obtained the request
\* ends with a redirect and an error message, and it made no ERP execute
\* call, no CRM call and no session change.
C22_AuthFailureRedirects ==
    [][NoSession(req') =>
         /\ req'.outcome = "redirect index"
         /\ "error: autenticacion" \in req'.flash
         /\ \A i \in 1..Len(req'.calls) :
              req'.calls[i] \in {"erp.authenticate", "vies.Client", "vies.checkVat"}
         /\ session_partner_id' = session_partner_id
         /\ partners' = partners /\ orders' = orders
         /\ order_lines' = order_lines /\ contacts' = contacts]_vars

\* C23: the order that create_presupuesto creates when it follows a save's
\* redirect is bound to the customer this save created or updated, never to
\* a customer an earlier search or save left in the session.
C23_OrderBoundToSavedCustomer ==
    [][( /\ req.handler = "save"
         /\ req.outcome = "redirect create_presupuesto"
         /\ req'.handler = "create_presupuesto"
         /\ req'.info.vat = Strip(req.info.form.vat)
         /\ req'.info.presupuesto_id # NoId )
       => In(orders'[req'.info.presupuesto_id].partner_id, req.info.ids)]_vars

\* the existing customers whose record differs from ps after the step to qs
Overwritten(ps, qs) == { i \in 1..Len(ps) : qs[i] # ps[i] }

\* C24: one save request modifies at most one existing customer, also when
\* the tax-ID-or-email search matches several, and the one it modifies is the
\* customer stored in the session.
C24_SaveWritesOneCustomer ==
    [][req'.handler = "save" =>
         /\ Cardinality(Overwritten(partners, partners')) <= 1
         /\ Overwritten(partners, partners') \subseteq {session_partner_id'}]_vars

\* two runs of the reconciler of which every CRM call answered successfully
BothSucceeded ==
    /\ req.handler = "create_or_update_client_in_clientify twice"
    /\ clientify_enabled
    /\ \A i \in DOMAIN req.info.first.answers : req.info.first.answers[i] = "ok"
    /\ \A i \in DOMAIN req.info.second.answers : req.info.second.answers[i] = "ok"

\* the second run creates nothing and patches the contact of the first run
\* with the tag list that contact already had
SecondRunChangesNothing ==
    /\ Len(contacts) <= Len(req.info.before) + 1
    /\ req.info.second.calls = <<"crm.GET", "crm.PATCH.contact">>
    /\ req.info.second.id = req.info.first.id
    /\ req.info.second.patch_tags = req.info.between[req.info.first.id].tags
    /\ contacts = req.info.between

\* C25 as stated: the upsert is idempotent, the second run also returning the
\* recognized tag of the first.
C25_Original ==
    BothSucceeded =>
      /\ SecondRunChangesNothing
      /\ req.info.second.tag = req.info.first.tag

\* C25, amended: the upsert is idempotent in the CRM and in the returned id;
\* the second run returns the first classification tag the contact carries,
\* which is the first run's recognized tag unless the first run appended the
\* request's classification to a contact that already carried another one.
C25_Amended ==
    BothSucceeded =>
      /\ SecondRunChangesNothing
      /\ req.info.second.tag =
           FirstRecognized(req.info.between[req.info.first.id].tags)
      /\ req.info.second.tag # req.info.first.tag <=>
           /\ req.info.first.matched # NoId
           /\ FirstRecognized(req.info.first.existing_tags) # None
           /\ IsRecognized(req.info.client_data.customer_tag)
           /\ ~In(req.info.client_data.customer_tag, req.info.first.existing_tags)

\* the first run appended a second classification and the second run
\* returned the older one
C25_Witness ==
    /\ BothSucceeded
    /\ req.info.first.matched # NoId
    /\ req.info.first.existing_tags = <<"laboratorio">>
    /\ req.info.client_data.customer_tag = "mayorista"
    /\ req.info.first.tag = "mayorista"
    /\ req.info.second.tag = "laboratorio"
    /\ req.info.second.patch_tags = <<"laboratorio", EVENT_MARKER, "mayorista">>

\* the classification a submitted value stands for: otros when it is none of
\* the five
Expected(submitted) ==
    IF StripTag(submitted) \in Classifications THEN StripTag(submitted) ELSE "otros"

\* the tags a customer carries after a save that submitted this classification
SavedTags(submitted) == <<ClassificationTag(submitted)>> \o MANDATORY_TAG_IDS

\* the confirm request read the customer and built the reconciler's payload
BuiltPayload(r) ==
    /\ r.handler = "confirm_presupuesto"
    /\ In("erp.sale.order.write", r.calls)

\* C26: a customer saved with classification c carries the tags of c, and the
\* classification confirm_presupuesto derives from them and hands to the CRM
\* reconciler is c (otros for an unknown or empty one), in whatever order the
\* ERP returns the customer's tag ids.
C26_ClassificationRoundTrip ==
    [][ /\ \A i \in Saved(req') :
             partners'[i].category_id = SavedTags(req'.info.form.customer_tag)
        /\ BuiltPayload(req') =>
             \A submitted \in SaveTags :
               partners[orders[req'.info.presupuesto_id].partner_id].category_id
                   = SavedTags(submitted)
               => req'.info.client_info.customer_tag = Expected(submitted)
      ]_vars

\* a customer last saved as estudiante: the order's confirmation handed
\* estudiante to the reconciler, which created the contact with it
C26_Witness ==
    /\ BuiltPayload(req)
    /\ req.info.crm_step
    /\ partners[orders[req.info.presupuesto_id].partner_id].category_id
         = SavedTags("estudiante")
    /\ req.info.client_info.customer_tag = "estudiante"
    /\ contacts = <<NewContact(EmailA, <<"estudiante", TAG_NAME, EVENT_MARKER>>)>>

====
